---- MODULE Spec2Model ----
(***************************************************************************)
(* Verification model of the authentication layer of the study-buddy       *)
(* backend: the secure-auth edge function (login with an in-memory login   *)
(* limiter, privileged school management) and the get-students edge        *)
(* function.                                                               *)
(*                                                                         *)
(* Time is Date.now() in milliseconds.  Strings that are only compared     *)
(* for equality (identifiers, row ids, messages) are TLA+ strings;         *)
(* passwords and stored credentials are sequences of character codes, so   *)
(* that secureCompare runs its character loop.  SHA-256 is modelled        *)
(* symbolically as a collision-free digest.                                *)
(***************************************************************************)
EXTENDS Integers, Sequences, FiniteSets, Bags, TLC

VARIABLES
    now,            \* Date.now(), milliseconds
    loginAttempts,  \* the in-memory Map of secure-auth: key -> record | NoRecord
    schools,        \* the schools table: set of rows
    reqs,           \* the bag of login requests in flight, each with its position and locals
    resp,           \* the HTTP response most recently returned, with what the request did
    failLog,        \* history: per key, the outcomes the login handler has recorded
    rateLimits,     \* the in-memory Map of the tutor endpoint: student id -> limit | NoLimit
    admitted,       \* history: per student id, the tutor requests admitted in the last window
    tts,            \* the text-to-speech hook of the app: its state, the synthesizer, history
    page            \* the admin login page: its state and what handleLogin is doing

vars == <<now, loginAttempts, schools, reqs, resp, failLog, rateLimits, admitted, tts, page>>

----------------------------------------------------------------------------
(* Bounds of the model *)

MaxInFlight == 2      \* login requests that may overlap
MaxTicks == 4         \* how often the clock advances
MaxWindows == 2       \* how many windows the tutor endpoint's clock runs through
MaxMessages == 8      \* entries of a transcript
MaxReply == 4         \* pieces of a model reply

----------------------------------------------------------------------------
(* Program constants: secure-auth/index.ts lines 11-13 *)

RATE_LIMIT_WINDOW == 15 * 60 * 1000
MAX_ATTEMPTS == 5
BLOCK_DURATION == 30 * 60 * 1000

(* The clock advances by one of two steps: half a window, or half a window *)
(* and half a second, so that both the exact window/block boundaries and   *)
(* fractional seconds occur.                                               *)
LongStep == RATE_LIMIT_WINDOW \div 2
Steps == {LongStep, LongStep + 500}

----------------------------------------------------------------------------
(* Strings as sequences of character codes *)

SecretPrefix == <<9>>     \* SUPABASE_SERVICE_ROLE_KEY.slice(0, 32)
DigestMark == 0           \* marks the hex digest produced by SHA-256

RECURSIVE BitXor(_, _)
BitXor(x, y) ==
    IF x = 0 /\ y = 0 THEN 0
    ELSE (((x % 2) + (y % 2)) % 2) + (2 * BitXor(x \div 2, y \div 2))

RECURSIVE BitOr(_, _)
BitOr(x, y) ==
    IF x = 0 /\ y = 0 THEN 0
    ELSE (IF (x % 2) = 1 \/ (y % 2) = 1 THEN 1 ELSE 0) + (2 * BitOr(x \div 2, y \div 2))

(* the equal-length loop of secureCompare: result |= a[i] ^ b[i] *)
RECURSIVE CompareLoop(_, _, _, _)
CompareLoop(a, b, i, result) ==
    IF i > Len(a) THEN result
    ELSE CompareLoop(a, b, i + 1, BitOr(result, BitXor(a[i], b[i])))

(* secureCompare that stops at the length check *)
secureCompare_LengthOnly(a, b) == Len(a) = Len(b)

secureCompare(a, b) ==
    IF Len(a) # Len(b) THEN FALSE
    ELSE CompareLoop(a, b, 1, 0) = 0

(* s.charCodeAt(i % s.length) || 0, i counted from 0: the index is NaN for *)
(* the empty string, charCodeAt gives NaN there and || makes it 0          *)
CharCodeAtOrZero(str, i) ==
    IF Len(str) = 0 THEN 0 ELSE str[(i % Len(str)) + 1]

(* for (let i = 0; i < n; i++) result |= ...: the run of either loop of *)
(* secureCompare from index i on, with the iterations it performs       *)
RECURSIVE LoopRun(_, _, _, _, _)
LoopRun(a, b, n, i, run) ==
    IF ~(i < n) THEN run
    ELSE LoopRun(a, b, n, i + 1,
                 [result |-> BitOr(run.result,
                                   BitXor(CharCodeAtOrZero(a, i), CharCodeAtOrZero(b, i))),
                  steps |-> run.steps + 1])

(* the loop with a break at the first pair of characters that differ *)
RECURSIVE LoopRun_StopsAtMismatch(_, _, _, _, _)
LoopRun_StopsAtMismatch(a, b, n, i, run) ==
    IF ~(i < n) \/ run.result # 0 THEN run
    ELSE LoopRun_StopsAtMismatch(a, b, n, i + 1,
                 [result |-> BitOr(run.result,
                                   BitXor(CharCodeAtOrZero(a, i), CharCodeAtOrZero(b, i))),
                  steps |-> run.steps + 1])

Longest(a, b) == IF Len(a) >= Len(b) THEN Len(a) ELSE Len(b)

(* the iterations one call of secureCompare performs *)
secureCompareSteps_StopsAtMismatch(a, b) ==
    IF Len(a) # Len(b)
    THEN LoopRun_StopsAtMismatch(a, b, Longest(a, b), 0, [result |-> 0, steps |-> 0]).steps
    ELSE LoopRun_StopsAtMismatch(a, b, Len(a), 0, [result |-> 0, steps |-> 0]).steps

secureCompareSteps(a, b) ==
    IF Len(a) # Len(b)
    THEN LoopRun(a, b, Longest(a, b), 0, [result |-> 0, steps |-> 0]).steps
    ELSE LoopRun(a, b, Len(a), 0, [result |-> 0, steps |-> 0]).steps

(* Code units: 0xD800..0xDBFF are high surrogates, 0xDC00..0xDFFF low ones *)
IsHigh(c) == c >= 55296 /\ c <= 56319
IsLow(c) == c >= 56320 /\ c <= 57343

(* The string as TextEncoder reads it: a high surrogate followed by a low   *)
(* one is one code point, any other surrogate becomes U+FFFD                *)
RECURSIVE ToScalars(_)
ToScalars(str) ==
    IF str = <<>> THEN <<>>
    ELSE IF IsHigh(str[1]) /\ Len(str) >= 2 /\ IsLow(str[2])
    THEN <<65536 + ((str[1] - 55296) * 1024) + (str[2] - 56320)>>
         \o ToScalars(Tail(Tail(str)))
    ELSE IF IsHigh(str[1]) \/ IsLow(str[1])
    THEN <<65533>> \o ToScalars(Tail(str))
    ELSE <<str[1]>> \o ToScalars(Tail(str))

(* the UTF-8 bytes of one code point *)
Utf8(cp) ==
    IF cp < 128 THEN <<cp>>
    ELSE IF cp < 2048 THEN <<192 + (cp \div 64), 128 + (cp % 64)>>
    ELSE IF cp < 65536
    THEN <<224 + (cp \div 4096), 128 + ((cp \div 64) % 64), 128 + (cp % 64)>>
    ELSE <<240 + (cp \div 262144), 128 + ((cp \div 4096) % 64),
           128 + ((cp \div 64) % 64), 128 + (cp % 64)>>

RECURSIVE Utf8All(_)
Utf8All(cps) ==
    IF cps = <<>> THEN <<>> ELSE Utf8(cps[1]) \o Utf8All(Tail(cps))

(* new TextEncoder().encode(str) *)
Encode(str) == Utf8All(ToScalars(str))

(* SHA-256 over the bytes of (password + secret prefix), hex encoded: a *)
(* symbolic digest, equal for equal bytes and for no others             *)
hashPassword(password) == <<DigestMark>> \o Encode(password \o SecretPrefix)

verifyPassword(password, storedHash) ==
    secureCompare(hashPassword(password), storedHash)

----------------------------------------------------------------------------
(* The data store *)

PwAdmin == <<1, 2>>           \* the administrator's password
PwWrong == <<1, 3>>           \* PwAdmin with one character changed
PwLegacy == <<4>>             \* a school password stored as legacy plain text

(* the admins table: never written by the endpoints *)
admins ==
    { [id |-> "uuid-adm", admin_id |-> "adm", name |-> "Admin", role |-> "super",
       password_hash |-> hashPassword(PwAdmin)] }

(* the rows the schools table holds at start *)
InitialSchools ==
    { [id |-> "uuid-s1", school_id |-> "SCH_1", name |-> "S1", fee_paid |-> TRUE,
       password_hash |-> PwLegacy, is_banned |-> FALSE],
      [id |-> "uuid-s2", school_id |-> "SCH_2", name |-> "S2", fee_paid |-> FALSE,
       password_hash |-> hashPassword(PwAdmin), is_banned |-> TRUE] }

NoRow == [id |-> "none"]

(* .eq(column, value).maybeSingle() on a table whose column is unique *)
MaybeSingle(rows) == IF rows = {} THEN NoRow ELSE CHOOSE r \in rows : TRUE

AdminByAdminId(identifier) == MaybeSingle({a \in admins : a.admin_id = identifier})
SchoolBySchoolId(identifier) == MaybeSingle({r \in schools : r.school_id = identifier})
AdminById(id) == MaybeSingle({a \in admins : a.id = id})

----------------------------------------------------------------------------
(* The login limiter *)

NoRecord == [count |-> 0, lastAttempt |-> 0, blockedUntil |-> 0, present |-> FALSE]

ClientIp == "10.0.0.1"
UserTypes == {"admin", "school", "student"}
Identifiers == {"adm", "SCH_1", "SCH_2", "SCH_3", "nobody", ""}

(* `${userType}:${identifier || clientIp}` *)
RateLimitKey(userType, identifier) ==
    <<userType, IF identifier # "" THEN identifier ELSE ClientIp>>

Keys == {RateLimitKey(u, i) : u \in UserTypes, i \in Identifiers}

(* Math.ceil(ms / 1000) for ms >= 0 *)
CeilSeconds(ms) == (ms + 999) \div 1000

(* checkRateLimit blocking only past the threshold (count > MAX_ATTEMPTS) *)
checkRateLimit_PastThreshold(map, identifier, t) ==
    LET record == map[identifier] IN
    IF ~record.present THEN [allowed |-> TRUE, map |-> map]
    ELSE IF record.blockedUntil > t
        THEN [allowed |-> FALSE, map |-> map,
              waitSeconds |-> CeilSeconds(record.blockedUntil - t)]
    ELSE IF t - record.lastAttempt > RATE_LIMIT_WINDOW
        THEN [allowed |-> TRUE, map |-> [map EXCEPT ![identifier] = NoRecord]]
    ELSE IF record.count > MAX_ATTEMPTS
        THEN [allowed |-> FALSE,
              map |-> [map EXCEPT ![identifier].blockedUntil = t + BLOCK_DURATION],
              waitSeconds |-> CeilSeconds(BLOCK_DURATION)]
    ELSE [allowed |-> TRUE, map |-> map]

(* checkRateLimit that never resets a record whose window has expired *)
checkRateLimit_NoExpiry(map, identifier, t) ==
    LET record == map[identifier] IN
    IF ~record.present THEN [allowed |-> TRUE, map |-> map]
    ELSE IF record.blockedUntil > t
        THEN [allowed |-> FALSE, map |-> map,
              waitSeconds |-> CeilSeconds(record.blockedUntil - t)]
    ELSE IF record.count >= MAX_ATTEMPTS
        THEN [allowed |-> FALSE,
              map |-> [map EXCEPT ![identifier].blockedUntil = t + BLOCK_DURATION],
              waitSeconds |-> CeilSeconds(BLOCK_DURATION)]
    ELSE [allowed |-> TRUE, map |-> map]

(* checkRateLimit that lets an expired record stand *)
checkRateLimit_KeepsExpired(map, identifier, t) ==
    LET record == map[identifier] IN
    IF ~record.present THEN [allowed |-> TRUE, map |-> map]
    ELSE IF record.blockedUntil > t
        THEN [allowed |-> FALSE, map |-> map,
              waitSeconds |-> CeilSeconds(record.blockedUntil - t)]
    ELSE IF t - record.lastAttempt > RATE_LIMIT_WINDOW
        THEN [allowed |-> TRUE, map |-> map]
    ELSE IF record.count >= MAX_ATTEMPTS
        THEN [allowed |-> FALSE,
              map |-> [map EXCEPT ![identifier].blockedUntil = t + BLOCK_DURATION],
              waitSeconds |-> CeilSeconds(BLOCK_DURATION)]
    ELSE [allowed |-> TRUE, map |-> map]

(* checkRateLimit that starts the block anew at every login it rejects *)
checkRateLimit_RefreshesBlock(map, identifier, t) ==
    LET record == map[identifier] IN
    IF ~record.present THEN [allowed |-> TRUE, map |-> map]
    ELSE IF record.blockedUntil > t
        THEN [allowed |-> FALSE,
              map |-> [map EXCEPT ![identifier].blockedUntil = t + BLOCK_DURATION],
              waitSeconds |-> CeilSeconds(record.blockedUntil - t)]
    ELSE IF t - record.lastAttempt > RATE_LIMIT_WINDOW
        THEN [allowed |-> TRUE, map |-> [map EXCEPT ![identifier] = NoRecord]]
    ELSE IF record.count >= MAX_ATTEMPTS
        THEN [allowed |-> FALSE,
              map |-> [map EXCEPT ![identifier].blockedUntil = t + BLOCK_DURATION],
              waitSeconds |-> CeilSeconds(BLOCK_DURATION)]
    ELSE [allowed |-> TRUE, map |-> map]

(* checkRateLimit: what it returns, and the Map it leaves behind *)
checkRateLimit(map, identifier, t) ==
    LET record == map[identifier] IN
    IF ~record.present THEN [allowed |-> TRUE, map |-> map]
    ELSE IF record.blockedUntil > t
        THEN [allowed |-> FALSE, map |-> map,
              waitSeconds |-> CeilSeconds(record.blockedUntil - t)]
    ELSE IF t - record.lastAttempt > RATE_LIMIT_WINDOW
        THEN [allowed |-> TRUE, map |-> [map EXCEPT ![identifier] = NoRecord]]
    ELSE IF record.count >= MAX_ATTEMPTS
        THEN [allowed |-> FALSE,
              map |-> [map EXCEPT ![identifier].blockedUntil = t + BLOCK_DURATION],
              waitSeconds |-> CeilSeconds(BLOCK_DURATION)]
    ELSE [allowed |-> TRUE, map |-> map]

(* recordAttempt that keeps the record on a successful login *)
recordAttempt_KeepsOnSuccess(map, identifier, success, t) ==
    LET record == map[identifier] IN
    IF success THEN map
    ELSE IF ~record.present
        THEN [map EXCEPT ![identifier] =
                 [count |-> 1, lastAttempt |-> t, blockedUntil |-> 0, present |-> TRUE]]
    ELSE [map EXCEPT ![identifier] =
             [@ EXCEPT !.count = @ + 1, !.lastAttempt = t]]

(* recordAttempt that counts a repeated failure twice *)
recordAttempt_CountsTwice(map, identifier, success, t) ==
    LET record == map[identifier] IN
    IF success THEN [map EXCEPT ![identifier] = NoRecord]
    ELSE IF ~record.present
        THEN [map EXCEPT ![identifier] =
                 [count |-> 1, lastAttempt |-> t, blockedUntil |-> 0, present |-> TRUE]]
    ELSE [map EXCEPT ![identifier] =
             [@ EXCEPT !.count = @ + 2, !.lastAttempt = t]]

(* recordAttempt that loses the update of every failure after the second *)
recordAttempt_DropsRepeats(map, identifier, success, t) ==
    LET record == map[identifier] IN
    IF success THEN [map EXCEPT ![identifier] = NoRecord]
    ELSE IF ~record.present
        THEN [map EXCEPT ![identifier] =
                 [count |-> 1, lastAttempt |-> t, blockedUntil |-> 0, present |-> TRUE]]
    ELSE [map EXCEPT ![identifier] =
             [@ EXCEPT !.count = IF @ >= 2 THEN @ ELSE @ + 1, !.lastAttempt = t]]

(* recordAttempt: the Map it leaves behind *)
recordAttempt(map, identifier, success, t) ==
    LET record == map[identifier] IN
    IF success THEN [map EXCEPT ![identifier] = NoRecord]
    ELSE IF ~record.present
        THEN [map EXCEPT ![identifier] =
                 [count |-> 1, lastAttempt |-> t, blockedUntil |-> 0, present |-> TRUE]]
    ELSE [map EXCEPT ![identifier] =
             [@ EXCEPT !.count = @ + 1, !.lastAttempt = t]]

----------------------------------------------------------------------------
(* Requests and responses *)

(* a request in flight leaves the bag, or is replaced by its next position *)
Leave(r) == reqs (-) SetToBag({r})
Become(r, r2) == (reqs (-) SetToBag({r})) (+) SetToBag({r2})
InFlight == BagToSet(reqs)

NoResponse ==
    [endpoint |-> "none", status |-> 0, body |-> [error |-> "none"], ops |-> <<>>,
     audit |-> <<>>]

Json(status, body) == [status |-> status, body |-> body]

(* an entry of a request's log: a call of one of the handler's helpers; a *)
(* data-store call is logged as <<verb, table>>                           *)
Call(name) == <<"call", name>>

(* what a finished request leaves in resp: the request, the response, and the *)
(* limiter calls, credential checks and data-store calls it made, in order;   *)
(* audit holds the rows the request added to the login_attempts table         *)
Finished(endpoint, req, ops, r) ==
    [endpoint |-> endpoint, req |-> req, status |-> r.status, body |-> r.body, ops |-> ops,
     audit |-> <<>>]

TooManyAttempts(waitSeconds) ==
    Json(429, [error |-> "Too many login attempts. Please try again in ${waitSeconds} seconds.",
               rateLimited |-> TRUE, waitSeconds |-> waitSeconds])

(* crypto.randomUUID(): a token is its text split at "_"; a UUID holds no "_" *)
UUIDs == {"uuid-r1", "uuid-r2"}
randomUUID == {<<u>> : u \in UUIDs}

----------------------------------------------------------------------------
(* History of what the login handler recorded per key: the length of the    *)
(* current run of failures (each within the window of the one before, no    *)
(* success since), when the last one was recorded, how many logins the      *)
(* limiter has rejected since then (counted up to 2), and whether a success *)
(* cleared earlier failures with at most one failure recorded since, and    *)
(* the times of the latest failures.                                        *)

NoLog == [fails |-> 0, lastFail |-> 0, rejected |-> 0, cleared |-> FALSE, times |-> <<>>]

(* the times of the last MAX_ATTEMPTS failures at most, oldest first, that *)
(* lie within the window before the failure at t                          *)
LastTimes(times, t) ==
    LET InWindow(e) == t - e <= RATE_LIMIT_WINDOW
        all == Append(SelectSeq(times, InWindow), t)
    IN IF Len(all) > MAX_ATTEMPTS THEN Tail(all) ELSE all

LogFailure(log, key, t) ==
    LET l == log[key]
        continues == l.fails > 0 /\ t - l.lastFail <= RATE_LIMIT_WINDOW
    IN [log EXCEPT ![key] =
           [fails |-> IF continues THEN l.fails + 1 ELSE 1,
            lastFail |-> t,
            rejected |-> 0,
            cleared |-> l.cleared /\ l.fails = 0,
            times |-> LastTimes(l.times, t)]]

LogSuccess(log, key) ==
    [log EXCEPT ![key] = [NoLog EXCEPT !.cleared = log[key].fails > 0 \/ log[key].cleared]]

LogRejected(log, key) ==
    [log EXCEPT ![key].rejected = IF @ < 2 THEN @ + 1 ELSE @]

----------------------------------------------------------------------------
(* secure-auth, action "login" *)

(* the arrival that counts a rejected login as a failed attempt *)
LoginReceive_CountsRejected(userType, identifier, password) ==
    LET rateLimitKey == RateLimitKey(userType, identifier)
        rateCheck == checkRateLimit(loginAttempts, rateLimitKey, now)
        req == [action |-> "login", userType |-> userType,
                identifier |-> identifier, password |-> password]
    IN
    /\ BagCardinality(reqs) < MaxInFlight
    /\ IF ~rateCheck.allowed
       THEN /\ loginAttempts' = recordAttempt(rateCheck.map, rateLimitKey, FALSE, now)
            /\ resp' = Finished("secure-auth", req,
                                <<Call("checkRateLimit"), Call("recordAttempt(false)")>>,
                                TooManyAttempts(rateCheck.waitSeconds))
            /\ failLog' = LogRejected(failLog, rateLimitKey)
            /\ UNCHANGED reqs
       ELSE IF userType \in {"admin", "school"}
       THEN /\ loginAttempts' = rateCheck.map
            /\ reqs' = reqs (+) SetToBag({
                           [pc |-> "lookup", req |-> req, key |-> rateLimitKey,
                            row |-> NoRow, token |-> <<>>,
                            ops |-> <<Call("checkRateLimit")>>]})
            /\ UNCHANGED <<resp, failLog>>
       ELSE /\ loginAttempts' = rateCheck.map
            /\ resp' = Finished("secure-auth", req, <<Call("checkRateLimit")>>,
                                Json(400, [error |-> "Invalid user type"]))
            /\ UNCHANGED <<reqs, failLog>>
    /\ UNCHANGED <<now, schools, rateLimits, admitted, tts, page>>

(* The request arrives: the limiter is consulted; a blocked key is answered *)
(* 429 at once, an unknown user type 400, otherwise the principal lookup is *)
(* sent to the data store and the request waits for it.                     *)
LoginReceive(userType, identifier, password) ==
    LET rateLimitKey == RateLimitKey(userType, identifier)
        rateCheck == checkRateLimit(loginAttempts, rateLimitKey, now)
        req == [action |-> "login", userType |-> userType,
                identifier |-> identifier, password |-> password]
    IN
    /\ BagCardinality(reqs) < MaxInFlight
    /\ loginAttempts' = rateCheck.map
    /\ IF ~rateCheck.allowed
       THEN /\ resp' = Finished("secure-auth", req, <<Call("checkRateLimit")>>,
                                TooManyAttempts(rateCheck.waitSeconds))
            /\ failLog' = LogRejected(failLog, rateLimitKey)
            /\ UNCHANGED reqs
       ELSE IF userType \in {"admin", "school"}
       THEN /\ reqs' = reqs (+) SetToBag({
                           [pc |-> "lookup", req |-> req, key |-> rateLimitKey,
                            row |-> NoRow, token |-> <<>>,
                            ops |-> <<Call("checkRateLimit")>>]})
            /\ UNCHANGED <<resp, failLog>>
       ELSE /\ resp' = Finished("secure-auth", req, <<Call("checkRateLimit")>>,
                                Json(400, [error |-> "Invalid user type"]))
            /\ UNCHANGED <<reqs, failLog>>
    /\ UNCHANGED <<now, schools, rateLimits, admitted, tts, page>>

(* a failed attempt: recordAttempt(key, false) and a 401 *)
LoginFails(r, ops, message) ==
    /\ loginAttempts' = recordAttempt(loginAttempts, r.key, FALSE, now)
    /\ failLog' = LogFailure(failLog, r.key, now)
    /\ resp' = Finished("secure-auth", r.req,
                        ops \o <<Call("recordAttempt(false)")>>,
                        Json(401, [error |-> message]))
    /\ reqs' = Leave(r)

(* the lookup step without the ban check: a banned school goes on to *)
(* password verification                                              *)
LoginLookup_NoBanCheck(r, lookupError) ==
    LET table == IF r.req.userType = "admin" THEN "admins" ELSE "schools"
        row == IF r.req.userType = "admin" THEN AdminByAdminId(r.req.identifier)
               ELSE SchoolBySchoolId(r.req.identifier)
        ops == r.ops \o <<<<"select", table>>>>
    IN
    /\ r \in InFlight
    /\ r.pc = "lookup"
    /\ IF lookupError THEN LoginFails(r, ops, "Authentication failed")
       ELSE IF row = NoRow THEN LoginFails(r, ops, "Invalid credentials")
       ELSE /\ reqs' = Become(r, [r EXCEPT !.pc = "verify", !.row = row, !.ops = ops])
            /\ UNCHANGED <<loginAttempts, failLog, resp>>
    /\ UNCHANGED <<now, schools, rateLimits, admitted, tts, page>>

(* the lookup step that counts the login to a banned school as a failure *)
LoginLookup_BanCounts(r, lookupError) ==
    LET table == IF r.req.userType = "admin" THEN "admins" ELSE "schools"
        row == IF r.req.userType = "admin" THEN AdminByAdminId(r.req.identifier)
               ELSE SchoolBySchoolId(r.req.identifier)
        ops == r.ops \o <<<<"select", table>>>>
    IN
    /\ r \in InFlight
    /\ r.pc = "lookup"
    /\ IF lookupError THEN LoginFails(r, ops, "Authentication failed")
       ELSE IF row = NoRow THEN LoginFails(r, ops, "Invalid credentials")
       ELSE IF r.req.userType = "school" /\ row.is_banned
       THEN /\ resp' = Finished("secure-auth", r.req, ops,
                   Json(403, [error |-> "This school account has been suspended"]))
            /\ reqs' = Leave(r)
            /\ loginAttempts' = recordAttempt(loginAttempts, r.key, FALSE, now)
            /\ failLog' = failLog
       ELSE /\ reqs' = Become(r, [r EXCEPT !.pc = "verify", !.row = row, !.ops = ops])
            /\ UNCHANGED <<loginAttempts, failLog, resp>>
    /\ UNCHANGED <<now, schools, rateLimits, admitted, tts, page>>

(* The data store answers the lookup, with an error or with at most one row *)
LoginLookup(r, lookupError) ==
    LET table == IF r.req.userType = "admin" THEN "admins" ELSE "schools"
        row == IF r.req.userType = "admin" THEN AdminByAdminId(r.req.identifier)
               ELSE SchoolBySchoolId(r.req.identifier)
        ops == r.ops \o <<<<"select", table>>>>
    IN
    /\ r \in InFlight
    /\ r.pc = "lookup"
    /\ IF lookupError THEN LoginFails(r, ops, "Authentication failed")
       ELSE IF row = NoRow THEN LoginFails(r, ops, "Invalid credentials")
       ELSE IF r.req.userType = "school" /\ row.is_banned
       THEN /\ resp' = Finished("secure-auth", r.req, ops,
                   Json(403, [error |-> "This school account has been suspended"]))
            /\ reqs' = Leave(r)
            /\ UNCHANGED <<loginAttempts, failLog>>
       ELSE /\ reqs' = Become(r, [r EXCEPT !.pc = "verify", !.row = row, !.ops = ops])
            /\ UNCHANGED <<loginAttempts, failLog, resp>>
    /\ UNCHANGED <<now, schools, rateLimits, admitted, tts, page>>

(* the verification step telling the caller that the password was wrong *)
LoginVerify_SaysWrongPassword(r, sessionToken) ==
    LET isValidHash == verifyPassword(r.req.password, r.row.password_hash)
        isLegacyPlainText == secureCompare(r.req.password, r.row.password_hash)
        ops == r.ops \o <<Call("verifyPassword"), Call("secureCompare")>>
    IN
    /\ r \in InFlight
    /\ r.pc = "verify"
    /\ IF ~isValidHash /\ ~isLegacyPlainText
       THEN LoginFails(r, ops, "Wrong password")
       ELSE /\ loginAttempts' = recordAttempt(loginAttempts, r.key, TRUE, now)
            /\ failLog' = LogSuccess(failLog, r.key)
            /\ reqs' = Become(r,
                           [r EXCEPT !.pc = "audit", !.token = sessionToken,
                                     !.ops = ops \o <<Call("recordAttempt(true)"), Call("randomUUID")>>])
            /\ UNCHANGED resp
    /\ UNCHANGED <<now, schools, rateLimits, admitted, tts, page>>

(* The digest is ready: both comparisons are made, then the attempt is recorded *)
LoginVerify(r, sessionToken) ==
    LET isValidHash == verifyPassword(r.req.password, r.row.password_hash)
        isLegacyPlainText == secureCompare(r.req.password, r.row.password_hash)
        ops == r.ops \o <<Call("verifyPassword"), Call("secureCompare")>>
    IN
    /\ r \in InFlight
    /\ r.pc = "verify"
    /\ IF ~isValidHash /\ ~isLegacyPlainText
       THEN LoginFails(r, ops, "Invalid credentials")
       ELSE /\ loginAttempts' = recordAttempt(loginAttempts, r.key, TRUE, now)
            /\ failLog' = LogSuccess(failLog, r.key)
            /\ reqs' = Become(r,
                           [r EXCEPT !.pc = "audit", !.token = sessionToken,
                                     !.ops = ops \o <<Call("recordAttempt(true)"), Call("randomUUID")>>])
            /\ UNCHANGED resp
    /\ UNCHANGED <<now, schools, rateLimits, admitted, tts, page>>

(* the user object of the success response *)
LoginUser(r) ==
    IF r.req.userType = "admin"
    THEN [id |-> r.row.id, name |-> r.row.name, role |-> r.row.role,
          adminId |-> r.row.admin_id]
    ELSE [id |-> r.row.id, schoolId |-> r.row.school_id, name |-> r.row.name,
          feePaid |-> r.row.fee_paid]

(* the row of the login_attempts table a successful login inserts; id and *)
(* created_at are the table's defaults                                    *)
AuditRow(r) ==
    [identifier |-> r.req.identifier, attempt_type |-> r.req.userType,
     ip_address |-> ClientIp, success |-> TRUE]

(* The audit row is inserted and the login succeeds.  The data store reports *)
(* a rejected insert in the result it returns, which the handler does not    *)
(* look at: with insertError the row is not stored and the response is the   *)
(* same.                                                                     *)
LoginAudit(r, insertError) ==
    /\ r \in InFlight
    /\ r.pc = "audit"
    /\ resp' = [Finished("secure-auth", r.req,
                         r.ops \o <<<<"insert", "login_attempts">>>>,
                         Json(200, [success |-> TRUE, user |-> LoginUser(r),
                                    sessionToken |-> r.token]))
                  EXCEPT !.audit = IF insertError THEN <<>> ELSE <<AuditRow(r)>>]
    /\ reqs' = Leave(r)
    /\ UNCHANGED <<now, loginAttempts, schools, failLog, rateLimits, admitted, tts, page>>

(* time passes *)
Tick(d) ==
    /\ now \div LongStep < MaxTicks
    /\ d # LongStep => now % 1000 = 0      \* the odd half second is taken once
    /\ now' = now + d
    /\ UNCHANGED <<loginAttempts, schools, reqs, resp, failLog, rateLimits, admitted, tts, page>>

----------------------------------------------------------------------------
(* secure-auth, the privileged actions.  adminCredentials and schoolData   *)
(* are records; a missing or empty field is "", a missing object Missing.  *)

Missing == [missing |-> TRUE]

(* adminCredentials?.adminId and adminCredentials?.sessionToken, "" when absent *)
CredAdminId(adminCredentials) ==
    IF adminCredentials = Missing THEN "" ELSE adminCredentials.adminId
CredSessionToken(adminCredentials) ==
    IF adminCredentials = Missing THEN <<>> ELSE adminCredentials.sessionToken

(* the admin gate that accepts only the token the admin's login was given *)
AdminGate_ChecksToken(adminCredentials, dbError) ==
    IF CredAdminId(adminCredentials) = "" \/ CredSessionToken(adminCredentials) = <<>>
    THEN [ok |-> FALSE, ops |-> <<>>,
          r |-> Json(401, [error |-> "Admin authentication required"])]
    ELSE IF \/ dbError = "admins"
            \/ AdminById(CredAdminId(adminCredentials)) = NoRow
            \/ CredSessionToken(adminCredentials) # <<"uuid-r1">>
    THEN [ok |-> FALSE, ops |-> <<<<"select", "admins">>>>,
          r |-> Json(401, [error |-> "Invalid admin session"])]
    ELSE [ok |-> TRUE, ops |-> <<<<"select", "admins">>>>]

(* The admin gate shared by create_school, update_school and delete_school: *)
(* "ok", or the 401 it answers, with the data-store calls it made           *)
AdminGate(adminCredentials, dbError) ==
    IF CredAdminId(adminCredentials) = "" \/ CredSessionToken(adminCredentials) = <<>>
    THEN [ok |-> FALSE, ops |-> <<>>,
          r |-> Json(401, [error |-> "Admin authentication required"])]
    \* a failed lookup leaves data null: the error itself is not looked at
    ELSE IF dbError = "admins" \/ AdminById(CredAdminId(adminCredentials)) = NoRow
    THEN [ok |-> FALSE, ops |-> <<<<"select", "admins">>>>,
          r |-> Json(401, [error |-> "Invalid admin session"])]
    ELSE [ok |-> TRUE, ops |-> <<<<"select", "admins">>>>]

InternalError == Json(500, [error |-> "Internal server error"])

(* generateSecureCredentials(): "SCH_" + 12 random characters, 16 random characters *)
GeneratedCredentials == {[id |-> "SCH_3", password |-> <<5, 6>>]}
NewRowIds == {"uuid-s3"}       \* gen_random_uuid() of an inserted row

(* create_school that hashes the digest of the generated password again *)
CreateSchool_HashesTwice(adminCredentials, schoolData, credentials, rowId, dbError) ==
    LET gate == AdminGate(adminCredentials, dbError)
        req == [action |-> "create_school", adminCredentials |-> adminCredentials,
                schoolData |-> schoolData, dbError |-> dbError]
        newSchool == [id |-> rowId, school_id |-> credentials.id, name |-> schoolData.name,
                      fee_paid |-> FALSE,
                      password_hash |-> hashPassword(hashPassword(credentials.password)),
                      is_banned |-> FALSE]
        insertError == \/ dbError = "schools"
                       \/ \E r \in schools : r.school_id = credentials.id \/ r.id = rowId
    IN
    /\ IF ~gate.ok
       THEN /\ resp' = Finished("secure-auth", req, gate.ops, gate.r)
            /\ UNCHANGED schools
       ELSE IF schoolData = Missing
       THEN /\ resp' = Finished("secure-auth", req, gate.ops \o <<Call("hashPassword")>>,
                                InternalError)
            /\ UNCHANGED schools
       ELSE IF insertError
       THEN /\ resp' = Finished("secure-auth", req,
                                gate.ops \o <<Call("hashPassword"), <<"insert", "schools">>>>,
                                Json(400, [error |-> "insert failed"]))
            /\ UNCHANGED schools
       ELSE /\ schools' = schools \cup {newSchool}
            /\ resp' = Finished("secure-auth", req,
                                gate.ops \o <<Call("hashPassword"), <<"insert", "schools">>>>,
                                Json(200, [success |-> TRUE, school |-> newSchool,
                                           credentials |-> credentials]))
    /\ UNCHANGED <<now, loginAttempts, reqs, failLog, rateLimits, admitted, tts, page>>

(* create_school that stores the generated password as it is *)
CreateSchool_StoresPlaintext(adminCredentials, schoolData, credentials, rowId, dbError) ==
    LET gate == AdminGate(adminCredentials, dbError)
        req == [action |-> "create_school", adminCredentials |-> adminCredentials,
                schoolData |-> schoolData, dbError |-> dbError]
        newSchool == [id |-> rowId, school_id |-> credentials.id, name |-> schoolData.name,
                      fee_paid |-> FALSE, password_hash |-> credentials.password,
                      is_banned |-> FALSE]
        \* school_id is UNIQUE, id is the primary key
        insertError == \/ dbError = "schools"
                       \/ \E r \in schools : r.school_id = credentials.id \/ r.id = rowId
    IN
    /\ IF ~gate.ok
       THEN /\ resp' = Finished("secure-auth", req, gate.ops, gate.r)
            /\ UNCHANGED schools
       ELSE IF schoolData = Missing       \* schoolData.name throws
       THEN /\ resp' = Finished("secure-auth", req, gate.ops \o <<Call("hashPassword")>>,
                                InternalError)
            /\ UNCHANGED schools
       ELSE IF insertError
       THEN /\ resp' = Finished("secure-auth", req,
                                gate.ops \o <<Call("hashPassword"), <<"insert", "schools">>>>,
                                Json(400, [error |-> "insert failed"]))
            /\ UNCHANGED schools
       ELSE /\ schools' = schools \cup {newSchool}
            /\ resp' = Finished("secure-auth", req,
                                gate.ops \o <<Call("hashPassword"), <<"insert", "schools">>>>,
                                Json(200, [success |-> TRUE, school |-> newSchool,
                                           credentials |-> credentials]))
    /\ UNCHANGED <<now, loginAttempts, reqs, failLog, rateLimits, admitted, tts, page>>

CreateSchool(adminCredentials, schoolData, credentials, rowId, dbError) ==
    LET gate == AdminGate(adminCredentials, dbError)
        req == [action |-> "create_school", adminCredentials |-> adminCredentials,
                schoolData |-> schoolData, dbError |-> dbError]
        newSchool == [id |-> rowId, school_id |-> credentials.id, name |-> schoolData.name,
                      fee_paid |-> FALSE, password_hash |-> hashPassword(credentials.password),
                      is_banned |-> FALSE]
        \* school_id is UNIQUE, id is the primary key
        insertError == \/ dbError = "schools"
                       \/ \E r \in schools : r.school_id = credentials.id \/ r.id = rowId
    IN
    /\ IF ~gate.ok
       THEN /\ resp' = Finished("secure-auth", req, gate.ops, gate.r)
            /\ UNCHANGED schools
       ELSE IF schoolData = Missing       \* schoolData.name throws
       THEN /\ resp' = Finished("secure-auth", req, gate.ops \o <<Call("hashPassword")>>,
                                InternalError)
            /\ UNCHANGED schools
       ELSE IF insertError
       THEN /\ resp' = Finished("secure-auth", req,
                                gate.ops \o <<Call("hashPassword"), <<"insert", "schools">>>>,
                                Json(400, [error |-> "insert failed"]))
            /\ UNCHANGED schools
       ELSE /\ schools' = schools \cup {newSchool}
            /\ resp' = Finished("secure-auth", req,
                                gate.ops \o <<Call("hashPassword"), <<"insert", "schools">>>>,
                                Json(200, [success |-> TRUE, school |-> newSchool,
                                           credentials |-> credentials]))
    /\ UNCHANGED <<now, loginAttempts, reqs, failLog, rateLimits, admitted, tts, page>>

(* the columns update_school is asked to set *)
ApplyUpdates(row, updates) ==
    [f \in DOMAIN row |-> IF f \in DOMAIN updates THEN updates[f] ELSE row[f]]

UpdateSchool(adminCredentials, schoolData, dbError) ==
    LET gate == AdminGate(adminCredentials, dbError)
        req == [action |-> "update_school", adminCredentials |-> adminCredentials,
                schoolData |-> schoolData, dbError |-> dbError]
    IN
    /\ IF ~gate.ok
       THEN /\ resp' = Finished("secure-auth", req, gate.ops, gate.r)
            /\ UNCHANGED schools
       ELSE IF schoolData = Missing       \* destructuring undefined throws
       THEN /\ resp' = Finished("secure-auth", req, gate.ops, InternalError)
            /\ UNCHANGED schools
       ELSE IF dbError = "schools"
       THEN /\ resp' = Finished("secure-auth", req,
                                gate.ops \o <<<<"update", "schools">>>>,
                                Json(400, [error |-> "update failed"]))
            /\ UNCHANGED schools
       ELSE /\ schools' = {IF r.id = schoolData.schoolId
                           THEN ApplyUpdates(r, schoolData.updates) ELSE r : r \in schools}
            /\ resp' = Finished("secure-auth", req,
                                gate.ops \o <<<<"update", "schools">>>>,
                                Json(200, [success |-> TRUE]))
    /\ UNCHANGED <<now, loginAttempts, reqs, failLog, rateLimits, admitted, tts, page>>

DeleteSchool(adminCredentials, schoolData, dbError) ==
    LET gate == AdminGate(adminCredentials, dbError)
        req == [action |-> "delete_school", adminCredentials |-> adminCredentials,
                schoolData |-> schoolData, dbError |-> dbError]
    IN
    /\ IF ~gate.ok
       THEN /\ resp' = Finished("secure-auth", req, gate.ops, gate.r)
            /\ UNCHANGED schools
       ELSE IF schoolData = Missing       \* schoolData.schoolId throws
       THEN /\ resp' = Finished("secure-auth", req, gate.ops, InternalError)
            /\ UNCHANGED schools
       ELSE IF dbError = "schools"
       THEN /\ resp' = Finished("secure-auth", req,
                                gate.ops \o <<<<"delete", "schools">>>>,
                                Json(400, [error |-> "delete failed"]))
            /\ UNCHANGED schools
       ELSE /\ schools' = {r \in schools : r.id # schoolData.schoolId}
            /\ resp' = Finished("secure-auth", req,
                                gate.ops \o <<<<"delete", "schools">>>>,
                                Json(200, [success |-> TRUE]))
    /\ UNCHANGED <<now, loginAttempts, reqs, failLog, rateLimits, admitted, tts, page>>

(* the students table: read only *)
students ==
    { [id |-> "uuid-st1", school_id |-> "uuid-s1", is_banned |-> FALSE],
      [id |-> "uuid-st2", school_id |-> "uuid-s2", is_banned |-> FALSE],
      [id |-> "uuid-st3", school_id |-> "uuid-s1", is_banned |-> TRUE] }

GetStudentsForSchool(adminCredentials, schoolData, dbError) ==
    LET req == [action |-> "get_students_for_school",
                adminCredentials |-> adminCredentials, schoolData |-> schoolData,
                dbError |-> dbError]
    IN
    /\ resp' =
         IF schoolData = Missing          \* destructuring undefined throws
         THEN Finished("secure-auth", req, <<>>, InternalError)
         ELSE IF schoolData.schoolUuid = "" \/ schoolData.sessionToken = <<>>
         THEN Finished("secure-auth", req, <<>>,
                       Json(401, [error |-> "School authentication required"]))
         ELSE IF dbError = "students"
         THEN Finished("secure-auth", req, <<<<"select", "students">>>>,
                       Json(400, [error |-> "select failed"]))
         ELSE Finished("secure-auth", req, <<<<"select", "students">>>>,
                       Json(200, [success |-> TRUE,
                                  students |-> {st \in students :
                                                   st.school_id = schoolData.schoolUuid}]))
    /\ UNCHANGED <<now, loginAttempts, schools, reqs, failLog, rateLimits, admitted, tts, page>>

----------------------------------------------------------------------------
(* get-students: the student-fetch endpoint *)

Undefined == "undefined"

(* session_token?.split('_')[1] *)
SplitSecond(session_token) ==
    IF Len(session_token) >= 2 THEN session_token[2] ELSE Undefined

(* origin says where the caller got the token from: the user of the login *)
(* response that carried it, or "crafted"                                 *)
GetStudents(user_type, session_token, school_id, origin, dbError) ==
    LET req == [action |-> "get-students", user_type |-> user_type,
                session_token |-> session_token, school_id |-> school_id,
                origin |-> origin, dbError |-> dbError]
        school == MaybeSingle({r \in schools : r.id = school_id})
        adminId == SplitSecond(session_token)
        admin == AdminById(adminId)
    IN
    /\ resp' =
         IF user_type = "school" THEN
            IF dbError = "schools" \/ school = NoRow
            THEN Finished("get-students", req, <<<<"select", "schools">>>>,
                          Json(401, [error |-> "Invalid school session"]))
            ELSE IF school.is_banned
            THEN Finished("get-students", req, <<<<"select", "schools">>>>,
                          Json(403, [error |-> "School is banned"]))
            ELSE IF dbError = "students"
            THEN Finished("get-students", req,
                          <<<<"select", "schools">>, <<"select", "students">>>>,
                          Json(500, [error |-> "Failed to fetch students"]))
            ELSE Finished("get-students", req,
                          <<<<"select", "schools">>, <<"select", "students">>,
                            <<"select", "study_sessions">>>>,
                          Json(200, [students |-> {st \in students :
                                                      st.school_id = school_id /\ ~st.is_banned},
                                     school |-> [id |-> school.id, name |-> school.name,
                                                 is_banned |-> school.is_banned,
                                                 fee_paid |-> school.fee_paid]]))
         ELSE IF user_type = "admin" THEN
            IF dbError = "admins" \/ admin = NoRow
            THEN Finished("get-students", req, <<<<"select", "admins">>>>,
                          Json(401, [error |-> "Invalid admin session"]))
            ELSE IF dbError = "students"
            THEN Finished("get-students", req,
                          <<<<"select", "admins">>, <<"select", "students">>>>,
                          Json(500, [error |-> "Failed to fetch students"]))
            ELSE IF dbError = "schools"
            THEN Finished("get-students", req,
                          <<<<"select", "admins">>, <<"select", "students">>,
                            <<"select", "schools">>>>,
                          Json(500, [error |-> "Failed to fetch schools"]))
            ELSE Finished("get-students", req,
                          <<<<"select", "admins">>, <<"select", "students">>,
                            <<"select", "schools">>>>,
                          Json(200, [students |-> students, schools |-> schools]))
         ELSE Finished("get-students", req, <<>>, Json(400, [error |-> "Invalid user type"]))
    /\ UNCHANGED <<now, loginAttempts, schools, reqs, failLog, rateLimits, admitted, tts, page>>

----------------------------------------------------------------------------
(* The tutor endpoint's limiter state (the endpoint follows below) *)

StudentIds == {"stu-1", "stu-2"}
NoLimit == [count |-> 0, resetAt |-> 0, present |-> FALSE]

----------------------------------------------------------------------------
(* The login endpoint under load: overlapping logins and the clock *)

LoginTargets == {<<"admin", "adm">>}
LoginPasswords == {PwAdmin, PwWrong}

(* the hook before any speak(): nothing said, nothing handed to the *)
(* synthesizer, no keep-alive timer                                 *)
SilentHook ==
    [isSpeaking |-> FALSE, pc |-> "idle", chunks |-> 0, i |-> 0, retryCount |-> 0,
     keepAlive |-> FALSE, synth |-> "silent", event |-> "none",
     handed |-> <<>>, stopped |-> FALSE, handedAtStop |-> 0]

(* the admin login page as it is mounted *)
FreshPage ==
    [adminId |-> "", password |-> <<>>, showPassword |-> FALSE, isLoading |-> FALSE,
     rateLimitWait |-> 0,
     toast |-> "none", route |-> "/admin-login", pc |-> "idle", result |-> "none"]

Init ==
    /\ now = 0
    /\ loginAttempts = [k \in Keys |-> NoRecord]
    /\ schools = InitialSchools
    /\ reqs = EmptyBag
    /\ resp = NoResponse
    /\ failLog = [k \in Keys |-> NoLog]
    /\ rateLimits = [u \in StudentIds |-> NoLimit]
    /\ admitted = [u \in StudentIds |-> {}]
    /\ tts = SilentHook
    /\ page = FreshPage

(* Here the data store answers every lookup and one token value is minted: *)
(* lookup failures and the other values are taken up in SpecGate.          *)
Next ==
    \/ \E d \in Steps : Tick(d)
    \/ \E t \in LoginTargets, p \in LoginPasswords : LoginReceive(t[1], t[2], p)
    \/ \E r \in InFlight : LoginLookup(r, FALSE)
    \/ \E r \in InFlight : LoginVerify(r, <<"uuid-r1">>)
    \/ \E r \in InFlight, e \in BOOLEAN : LoginAudit(r, e)

Spec == Init /\ [][Next]_vars

----------------------------------------------------------------------------
(* The limiter claims, checked under Spec *)

(* the login (userType, identifier, password) is received in this step and *)
(* the limiter rejects it / lets it through                                *)
Rejected(t, p) ==
    LoginReceive(t[1], t[2], p) /\ reqs' = reqs /\ resp'.status = 429
Admitted(t, p) ==
    LoginReceive(t[1], t[2], p) /\ reqs' # reqs

(* the key has a run of at least 5 recorded failures, each within 15 minutes *)
(* of the one before, no success since, the last at most 15 minutes ago      *)
FiveRecentFailures(k) ==
    /\ failLog[k].fails >= 5
    /\ now - failLog[k].lastFail <= RATE_LIMIT_WINDOW

(* no login for the key has been rejected since its last recorded failure *)
NextLoginAfterFailure(k) == failLog[k].rejected = 0

ActiveBlock(k) == loginAttempts[k].present /\ loginAttempts[k].blockedUntil > now

C2_BlockHoldsUntilExpiry ==
    [][\A k \in Keys :
          ActiveBlock(k) =>
            /\ now' < loginAttempts[k].blockedUntil =>
                 /\ loginAttempts'[k].present
                 /\ loginAttempts'[k].blockedUntil = loginAttempts[k].blockedUntil
            /\ \A t \in LoginTargets, p \in LoginPasswords :
                 (RateLimitKey(t[1], t[2]) = k /\ LoginReceive(t[1], t[2], p))
                 => /\ resp'.status = 429
                    /\ resp'.body.waitSeconds =
                         CeilSeconds(loginAttempts[k].blockedUntil - now)]_vars

(* C3: a successful login deletes the key's record at once, and the next    *)
(* failed attempt after it sets the count to 1.                             *)
C3_SuccessClears ==
    \A k \in Keys :
        failLog[k].cleared =>
            IF failLog[k].fails = 0 THEN ~loginAttempts[k].present
            ELSE /\ loginAttempts[k].present => loginAttempts[k].count = 1
                 /\ failLog[k].lastFail = now => loginAttempts[k].present

(* failures, a success, then one failure: the count is 1 *)
C3_Witness ==
    \E k \in Keys :
        /\ failLog[k].cleared
        /\ failLog[k].fails = 1
        /\ loginAttempts[k].present
        /\ loginAttempts[k].count = 1

(* 5 failed attempts for the key, none followed by a success, fall within *)
(* the 15 minutes before now                                              *)
FiveWithinWindow(k) ==
    /\ Len(failLog[k].times) = MAX_ATTEMPTS
    /\ now - failLog[k].times[1] <= RATE_LIMIT_WINDOW

(* C4, as claimed: the limiter is a sliding window: a failed attempt made   *)
(* more than 15 minutes before a check does not count toward the threshold, *)
(* so a login is blocked only if 5 failed attempts for its key fall within  *)
(* the 15 minutes before it.  Stated of the logins that find no block       *)
(* active and are rejected all the same.                                    *)
C4_SlidingWindow ==
    [][\A t \in LoginTargets, p \in LoginPasswords :
          (Rejected(t, p) /\ ~ActiveBlock(RateLimitKey(t[1], t[2])))
          => FiveWithinWindow(RateLimitKey(t[1], t[2]))]_vars

(* C4, amended: the limiter keeps one count per key since the record was    *)
(* created, not a sliding window.  A check that finds no active block and   *)
(* the last failed attempt more than 15 minutes old deletes the record and  *)
(* lets the login through; a login is blocked only if a block is active or  *)
(* the record counts 5 or more failures, the last at most 15 minutes old.   *)
C4_Amended ==
    [][\A t \in LoginTargets, p \in LoginPasswords :
          LET k == RateLimitKey(t[1], t[2]) IN
          /\ Rejected(t, p) =>
                \/ ActiveBlock(k)
                \/ /\ loginAttempts[k].count >= 5
                   /\ now - failLog[k].lastFail <= RATE_LIMIT_WINDOW
          /\ ( /\ LoginReceive(t[1], t[2], p)
               /\ ~ActiveBlock(k)
               /\ failLog[k].fails > 0
               /\ now - failLog[k].lastFail > RATE_LIMIT_WINDOW )
             => Admitted(t, p) /\ ~loginAttempts'[k].present]_vars

(* a login triggers the block on the strength of 5 counted failures that *)
(* do not all lie within the 15 minutes before it                        *)
C4_Witness ==
    /\ resp.status = 429
    /\ resp.body.waitSeconds = 1800
    /\ loginAttempts[RateLimitKey(resp.req.userType, resp.req.identifier)].blockedUntil
         = now + BLOCK_DURATION
    /\ loginAttempts[RateLimitKey(resp.req.userType, resp.req.identifier)].count = 5
    /\ ~FiveWithinWindow(RateLimitKey(resp.req.userType, resp.req.identifier))

----------------------------------------------------------------------------
(* The login gate, clock stopped: every user type, identifier and password, *)
(* and data-store failures.  checkRateLimit and recordAttempt read and      *)
(* write the record of the key they are given and no other, so a behaviour  *)
(* here follows the logins of one limiter key: a login for another key is   *)
(* taken once no record and no login in flight is left of the first.        *)

GatePasswords == {PwAdmin, PwWrong, PwLegacy, hashPassword(PwAdmin)}

(* the limiter keys that hold a record or have a login in flight *)
ActiveKeys == {k \in Keys : loginAttempts[k].present} \cup {r.key : r \in InFlight}

NextGate ==
    \/ \E u \in UserTypes, i \in Identifiers, p \in GatePasswords :
           /\ ActiveKeys \subseteq {RateLimitKey(u, i)}
           /\ LoginReceive(u, i, p)
    \/ \E r \in InFlight, e \in BOOLEAN : LoginLookup(r, e)
    \/ \E r \in InFlight, tok \in randomUUID : LoginVerify(r, tok)
    \/ \E r \in InFlight, e \in BOOLEAN : LoginAudit(r, e)

SpecGate == Init /\ [][NextGate]_vars

----------------------------------------------------------------------------
(* School management and student listing: the privileged actions of        *)
(* secure-auth, the student-fetch endpoint, and the logins whose tokens    *)
(* the callers present.                                                    *)

AdminCredentialsIn ==
    { Missing,
      [adminId |-> "uuid-adm", sessionToken |-> <<"uuid-r1">>],
      [adminId |-> "uuid-adm", sessionToken |-> <<"x">>],
      [adminId |-> "uuid-adm", sessionToken |-> <<>>],
      [adminId |-> "", sessionToken |-> <<"uuid-r1">>],
      [adminId |-> "uuid-s1", sessionToken |-> <<"uuid-r1">>] }

SchoolUpdates == {[is_banned |-> TRUE], [is_banned |-> FALSE]}

SchoolRowIds == {"uuid-s2", "uuid-s3"}

(* the tokens a caller may present: the one the last login response carried, *)
(* or one it made up                                                         *)
CraftedTokens == {<<"admin", "uuid-adm", "1">>, <<"admin", "uuid-s1">>}

Crafted == [userType |-> "crafted", id |-> "none"]

PresentedTokens ==
    {[token |-> t, origin |-> Crafted] : t \in CraftedTokens} \cup
    (IF resp.endpoint = "secure-auth" /\ resp.req.action = "login" /\ resp.status = 200
     THEN {[token |-> resp.body.sessionToken,
            origin |-> [userType |-> resp.req.userType, id |-> resp.body.user.id]]}
     ELSE {})

NextAdmin ==
    \/ \E c \in AdminCredentialsIn, d \in {Missing, [name |-> "S3"]},
          g \in GeneratedCredentials, id \in NewRowIds, e \in {"none", "admins", "schools"} :
           CreateSchool(c, d, g, id, e)
    \/ \E c \in AdminCredentialsIn,
          d \in {Missing} \cup [schoolId : SchoolRowIds, updates : SchoolUpdates],
          e \in {"none", "schools"} :
           UpdateSchool(c, d, e)
    \/ \E c \in AdminCredentialsIn, d \in {Missing} \cup [schoolId : SchoolRowIds],
          e \in {"none", "schools"} :
           DeleteSchool(c, d, e)
    \/ \E c \in {Missing, [adminId |-> "uuid-adm", sessionToken |-> <<"uuid-r1">>]},
          d \in {Missing} \cup [schoolUuid : SchoolRowIds \cup {""},
                                sessionToken : {<<"uuid-r1">>, <<>>}],
          e \in {"none", "students"} :
           GetStudentsForSchool(c, d, e)
    \/ \E u \in UserTypes, t \in CraftedTokens, id \in SchoolRowIds,
          e \in {"none", "schools", "students"} :
           GetStudents(u, t, id, Crafted, e)

SpecAdmin == Init /\ [][NextAdmin]_vars

----------------------------------------------------------------------------
(* Sessions: a principal logs in and presents the token it was given to    *)
(* the student-fetch endpoint.                                             *)

SessionLogins ==
    {<<"admin", "adm", PwAdmin>>, <<"admin", "adm", PwWrong>>,
     <<"school", "SCH_1", PwLegacy>>}

NextSession ==
    \/ \E l \in SessionLogins :
           /\ reqs = EmptyBag
           /\ LoginReceive(l[1], l[2], l[3])
    \/ \E r \in InFlight : LoginLookup(r, FALSE)
    \/ \E r \in InFlight, tok \in randomUUID : LoginVerify(r, tok)
    \/ \E r \in InFlight, e \in BOOLEAN : LoginAudit(r, e)
    \/ \E u \in UserTypes, t \in PresentedTokens, id \in {"uuid-s1", "uuid-s2"},
          e \in {"none", "admins", "students"} :
           GetStudents(u, t.token, id, t.origin, e)

SpecSession == Init /\ [][NextSession]_vars

----------------------------------------------------------------------------
(* What a finished request was, read off resp *)

IsLogin(r) == r.endpoint = "secure-auth" /\ r.req.action = "login"

ErrorOf(r) == IF "error" \in DOMAIN r.body THEN r.body.error ELSE ""

Times(ops, entry) == Cardinality({i \in DOMAIN ops : ops[i] = entry})

(* the log holds a read or write of school or student data *)
TouchesSchoolData(ops) ==
    \E i \in DOMAIN ops : ops[i][2] \in {"schools", "students"}

(* the row the login's identifier names, if any *)
PrincipalRow(req) ==
    IF req.userType = "admin" THEN AdminByAdminId(req.identifier)
    ELSE SchoolBySchoolId(req.identifier)

(* a login by a principal type whose lookup did not fail *)
LookedUp(r) ==
    /\ IsLogin(r)
    /\ r.req.userType \in {"admin", "school"}
    /\ r.status # 429
    /\ ErrorOf(r) # "Authentication failed"

BannedSchoolLogin(r) ==
    /\ IsLogin(r)
    /\ r.req.userType = "school"
    /\ PrincipalRow(r.req) # NoRow
    /\ PrincipalRow(r.req).is_banned

PasswordMatches(req) ==
    \/ hashPassword(req.password) = PrincipalRow(req).password_hash
    \/ req.password = PrincipalRow(req).password_hash

GenericFailure == Json(401, [error |-> "Invalid credentials"])
Suspended == Json(403, [error |-> "This school account has been suspended"])

Answered(r, json) == r.status = json.status /\ r.body = json.body

NoPasswordCheck(r) ==
    Times(r.ops, Call("verifyPassword")) = 0 /\ Times(r.ops, Call("secureCompare")) = 0

----------------------------------------------------------------------------
(* The privileged actions, checked under SpecAdmin *)

Gated == {"create_school", "update_school", "delete_school"}

AdminResolves(adminCredentials) == AdminById(CredAdminId(adminCredentials)) # NoRow

(* C5: none of create_school, update_school, delete_school and            *)
(* get_students_for_school reads or writes school or student data unless   *)
(* the request carries an admin id that resolves to an admin row;          *)
(* otherwise the action answers 401 and has no effect.                     *)
C5_PrivilegedNeedAdmin ==
    [][( /\ resp'.endpoint = "secure-auth"
         /\ resp'.req.action \in Gated \cup {"get_students_for_school"}
         /\ resp'.req.schoolData # Missing
         /\ resp'.req.dbError = "none"
         /\ ~AdminResolves(resp'.req.adminCredentials) )
       => /\ resp'.status = 401
          /\ ~TouchesSchoolData(resp'.ops)
          /\ schools' = schools]_vars

(* get_students_for_school, sent with no admin credentials at all, reads *)
(* the students of the school it names and returns them                  *)
C5_ReadsWithoutAdmin ==
    /\ resp.endpoint = "secure-auth"
    /\ resp.req.action = "get_students_for_school"
    /\ resp.req.adminCredentials = Missing
    /\ resp.status = 200
    /\ resp.ops = <<<<"select", "students">>>>
    /\ resp.body.students # {}

(* What does hold: create_school, update_school and delete_school answer  *)
(* 401, untouched data, when the admin id resolves to no row; and         *)
(* get_students_for_school reads exactly when schoolData carries a        *)
(* non-empty schoolUuid and sessionToken.                                 *)
GatedActionsNeedAdmin ==
    [][/\ ( /\ resp'.endpoint = "secure-auth"
            /\ resp'.req.action \in Gated
            /\ ~AdminResolves(resp'.req.adminCredentials) )
          => /\ resp'.status = 401
             /\ ~TouchesSchoolData(resp'.ops)
             /\ schools' = schools
       /\ ( /\ resp'.endpoint = "secure-auth"
            /\ resp'.req.action = "get_students_for_school"
            /\ resp'.req.schoolData # Missing )
          => IF resp'.req.schoolData.schoolUuid = ""
                \/ resp'.req.schoolData.sessionToken = <<>>
             THEN resp'.status = 401 /\ ~TouchesSchoolData(resp'.ops)
             ELSE /\ resp'.ops = <<<<"select", "students">>>>
                  /\ resp'.req.dbError = "none" => resp'.status = 200]_vars

(* the rows a response body carries *)
RowsIn(body) ==
    (IF "school" \in DOMAIN body THEN {body.school} ELSE {}) \cup
    (IF "schools" \in DOMAIN body THEN body.schools ELSE {})

Plaintexts == {g.password : g \in GeneratedCredentials}

(* C12: a successful create_school persists as password_hash only          *)
(* hashPassword(generated password), never the plaintext, and returns the  *)
(* plaintext password in that one response only; when the insert fails     *)
(* nothing is persisted and the response carries no credentials.           *)
C12_OnlyHashPersisted ==
    [][/\ ( /\ resp'.endpoint = "secure-auth"
            /\ resp'.req.action = "create_school" )
          => IF resp'.status = 200
             THEN /\ resp'.body.credentials \in GeneratedCredentials
                  /\ \E row \in schools' \ schools :
                        /\ schools' = schools \cup {row}
                        /\ row.school_id = resp'.body.credentials.id
                        /\ row.password_hash = hashPassword(resp'.body.credentials.password)
                        /\ row.password_hash # resp'.body.credentials.password
             ELSE /\ schools' = schools
                  /\ "credentials" \notin DOMAIN resp'.body
       /\ ~( /\ resp'.endpoint = "secure-auth"
             /\ resp'.req.action = "create_school"
             /\ resp'.status = 200 )
          => /\ "credentials" \notin DOMAIN resp'.body
             /\ \A row \in RowsIn(resp'.body) :
                   "password_hash" \in DOMAIN row => row.password_hash \notin Plaintexts
       /\ \A row \in schools' \ InitialSchools : row.password_hash \notin Plaintexts]_vars

(* a school was created: the response carries the plaintext, the row its digest *)
C12_Witness ==
    /\ resp.endpoint = "secure-auth"
    /\ resp.req.action = "create_school"
    /\ resp.status = 200
    /\ resp.body.credentials.password \in Plaintexts
    /\ \E row \in schools :
          /\ row.school_id = resp.body.credentials.id
          /\ row.password_hash = hashPassword(resp.body.credentials.password)

----------------------------------------------------------------------------
(* Sessions, checked under SpecSession *)

(* C6: the token minted by a successful admin login embeds the admin's id, *)
(* so that the student-fetch endpoint, given it as session_token with      *)
(* user_type admin, re-derives the admin row of the principal who logged   *)
(* in and authorizes the request.                                          *)
C6_TokenAuthorizes ==
    ( /\ resp.endpoint = "get-students"
      /\ resp.req.user_type = "admin"
      /\ resp.req.origin.userType = "admin"
      /\ resp.req.dbError = "none" )
    => /\ SplitSecond(resp.req.session_token) = resp.req.origin.id
       /\ resp.status = 200

----------------------------------------------------------------------------
(* The login gate, checked under SpecGate *)

(* C7, as claimed: a login for an existing school whose is_banned flag is *)
(* set is answered 403 with the suspension message whatever the password, *)
(* and no password verification is executed for it.                       *)
C7_Original ==
    (BannedSchoolLogin(resp) /\ ErrorOf(resp) # "Authentication failed")
    => Answered(resp, Suspended) /\ NoPasswordCheck(resp)

(* C7, amended: such a login, when it passes the rate check and its lookup *)
(* succeeds, is answered 403 with the suspension message whatever the      *)
(* password, and no password verification is executed for it; when the key *)
(* is blocked it is answered 429 like any other login.                     *)
C7_Amended ==
    BannedSchoolLogin(resp) =>
        /\ LookedUp(resp) => Answered(resp, Suspended)
        /\ NoPasswordCheck(resp)
        /\ resp.status \in {403, 429, 401}
        /\ resp.status = 401 => ErrorOf(resp) = "Authentication failed"

(* a banned school logs in with a wrong password and is told it is suspended *)
C7_Witness ==
    /\ BannedSchoolLogin(resp)
    /\ resp.req.password = PwWrong
    /\ ~PasswordMatches(resp.req)
    /\ Answered(resp, Suspended)

(* a login with an unknown identifier / with a known one and a wrong password *)
UnknownIdLogin(r) ==
    IsLogin(r) /\ r.req.userType \in {"admin", "school"} /\ PrincipalRow(r.req) = NoRow
WrongPasswordLogin(r) ==
    /\ IsLogin(r) /\ r.req.userType \in {"admin", "school"}
    /\ PrincipalRow(r.req) # NoRow
    /\ ~PasswordMatches(r.req)

(* the answer that does not depend on whether the identifier exists: the  *)
(* limiter's, given before any lookup; the lookup failure's; or the one   *)
(* generic 401                                                            *)
SameForAnyIdentifier(r) ==
    \/ r.status = 429 /\ r.ops = <<Call("checkRateLimit")>>
    \/ r.status = 401 /\ ErrorOf(r) = "Authentication failed"
    \/ Answered(r, GenericFailure)

(* C8, as claimed: for the same principal type and rate-limit state the   *)
(* response to a login with a non-existent identifier is identical to the *)
(* response to one with an existing identifier and a wrong password.      *)
C8_Original ==
    (UnknownIdLogin(resp) \/ WrongPasswordLogin(resp)) => SameForAnyIdentifier(resp)

(* C8, amended: that holds except for a banned school, whose login is      *)
(* answered 403 with the suspension message whatever the password, which   *)
(* tells the caller that the school exists.                                *)
C8_Amended ==
    /\ (UnknownIdLogin(resp) \/ (WrongPasswordLogin(resp) /\ ~BannedSchoolLogin(resp)))
       => SameForAnyIdentifier(resp)
    /\ (WrongPasswordLogin(resp) /\ BannedSchoolLogin(resp) /\ LookedUp(resp))
       => Answered(resp, Suspended)

(* an existing admin with a wrong password gets the generic 401 *)
C8_Witness ==
    /\ WrongPasswordLogin(resp)
    /\ resp.req.userType = "admin"
    /\ Answered(resp, GenericFailure)

(* the step records exactly one failed attempt on key k *)
OneFailureRecorded(k) ==
    /\ loginAttempts'[k].present
    /\ loginAttempts'[k].count =
          (IF loginAttempts[k].present THEN loginAttempts[k].count ELSE 0) + 1
    /\ loginAttempts'[k].lastAttempt = now
    /\ \A k2 \in Keys \ {k} : loginAttempts'[k2] = loginAttempts[k2]

(* C9, as claimed: for both principal types a login whose lookup finds no *)
(* row or returns an error records exactly one failed attempt on the key  *)
(* and is answered 401 with the message Invalid credentials.              *)
C9_Original ==
    [][\A r \in InFlight, lookupError \in BOOLEAN :
          (LoginLookup(r, lookupError) /\ (lookupError \/ PrincipalRow(r.req) = NoRow))
          => /\ OneFailureRecorded(r.key)
             /\ Answered(resp', GenericFailure)]_vars

(* C9, amended: it records exactly one failed attempt and is answered 401  *)
(* with a generic message: Invalid credentials when no row is found,       *)
(* Authentication failed when the lookup returns an error.                 *)
C9_Amended ==
    [][\A r \in InFlight, lookupError \in BOOLEAN :
          (LoginLookup(r, lookupError) /\ (lookupError \/ PrincipalRow(r.req) = NoRow))
          => /\ OneFailureRecorded(r.key)
             /\ Times(resp'.ops, Call("recordAttempt(false)")) = 1
             /\ resp'.req = r.req
             /\ resp'.status = 401
             /\ resp'.body =
                  [error |-> IF lookupError THEN "Authentication failed"
                             ELSE "Invalid credentials"]]_vars

(* a school lookup fails with an error: 401 Authentication failed, count 2 *)
C9_Witness ==
    /\ IsLogin(resp)
    /\ resp.req.userType = "school"
    /\ resp.status = 401
    /\ ErrorOf(resp) = "Authentication failed"
    /\ loginAttempts[RateLimitKey(resp.req.userType, resp.req.identifier)].count = 2

ShouldSucceed(r) ==
    /\ PrincipalRow(r.req) # NoRow
    /\ ~BannedSchoolLogin(r)
    /\ PasswordMatches(r.req)

BothComparisons(r) ==
    Times(r.ops, Call("verifyPassword")) = 1 /\ Times(r.ops, Call("secureCompare")) = 1

(* C10, as claimed: a login that passes the rate check succeeds if and     *)
(* only if the row exists, is not a banned school, and hashPassword(       *)
(* password) or the password itself equals the stored value; both          *)
(* comparisons are evaluated (on every attempt that finds a row that is    *)
(* not banned); in the failing case the result is 401 with exactly one     *)
(* failed attempt recorded.                                                *)
C10_Original ==
    LookedUp(resp) =>
        /\ resp.status = 200 <=> ShouldSucceed(resp)
        /\ (PrincipalRow(resp.req) # NoRow /\ ~BannedSchoolLogin(resp))
           => BothComparisons(resp)
        /\ resp.status # 200 =>
              /\ resp.status = 401
              /\ Times(resp.ops, Call("recordAttempt(false)")) = 1

(* C10, amended: the failing case is 401 with exactly one failed attempt   *)
(* recorded when the row is missing or the password matches neither way;   *)
(* a banned school is answered 403 with no attempt recorded and no         *)
(* comparison made.  Both comparisons are made on every attempt that       *)
(* reaches password verification.                                          *)
C10_Amended ==
    LookedUp(resp) =>
        /\ resp.status = 200 <=> ShouldSucceed(resp)
        /\ IF PrincipalRow(resp.req) # NoRow /\ ~BannedSchoolLogin(resp)
           THEN BothComparisons(resp) ELSE NoPasswordCheck(resp)
        /\ resp.status = 200 =>
              /\ Times(resp.ops, Call("recordAttempt(true)")) = 1
              /\ Times(resp.ops, Call("recordAttempt(false)")) = 0
        /\ resp.status # 200 =>
              IF BannedSchoolLogin(resp)
              THEN /\ Answered(resp, Suspended)
                   /\ Times(resp.ops, Call("recordAttempt(false)")) = 0
              ELSE /\ Answered(resp, GenericFailure)
                   /\ Times(resp.ops, Call("recordAttempt(false)")) = 1

(* a school logs in with its legacy plain-text password: the digest does  *)
(* not match, the direct comparison does                                   *)
C10_Witness ==
    /\ LookedUp(resp)
    /\ resp.status = 200
    /\ resp.req.password = PrincipalRow(resp.req).password_hash
    /\ hashPassword(resp.req.password) # PrincipalRow(resp.req).password_hash
    /\ BothComparisons(resp)

----------------------------------------------------------------------------
(* The credential verifier on its own: secureCompare and verifyPassword     *)
(* applied to strings over a small alphabet that holds two letters, two     *)
(* high surrogates and a low surrogate.                                     *)

MaxLen == 2

CharCodes == {97, 98, 55296, 55297, 56320}

RECURSIVE StringsOfLen(_)
StringsOfLen(n) ==
    IF n = 0 THEN {<<>>}
    ELSE {Append(str, c) : str \in StringsOfLen(n - 1), c \in CharCodes}

Strings == UNION {StringsOfLen(n) : n \in 0..MaxLen}

Applied(name, args, result) ==
    [endpoint |-> name, req |-> args, status |-> 0, body |-> [result |-> result],
     ops |-> <<>>, audit |-> <<>>]

(* each behaviour applies one function to one pair of strings *)
ApplySecureCompare(a, b) ==
    /\ resp = NoResponse
    /\ resp' = [Applied("secureCompare", [a |-> a, b |-> b], secureCompare(a, b))
                   EXCEPT !.body = [result |-> secureCompare(a, b),
                                    steps |-> secureCompareSteps(a, b)]]
    /\ UNCHANGED <<now, loginAttempts, schools, reqs, failLog, rateLimits, admitted, tts, page>>

(* a credential is stored for password p, then q is verified against it *)
ApplyVerifyPassword(p, q) ==
    /\ resp = NoResponse
    /\ resp' = Applied("verifyPassword", [p |-> p, q |-> q],
                       verifyPassword(q, hashPassword(p)))
    /\ UNCHANGED <<now, loginAttempts, schools, reqs, failLog, rateLimits, admitted, tts, page>>

NextVerifier ==
    \/ \E a \in Strings, b \in Strings : ApplySecureCompare(a, b)
    \/ \E p \in Strings, q \in Strings : ApplyVerifyPassword(p, q)

SpecVerifier == Init /\ [][NextVerifier]_vars

(* q differs from p in one character *)
OneCharApart(p, q) ==
    /\ Len(p) = Len(q)
    /\ Cardinality({i \in DOMAIN p : p[i] # q[i]}) = 1

(* C11: verifyPassword(p, hashPassword(p)) is true for every p,             *)
(* verifyPassword(q, hashPassword(p)) is false for every q that differs     *)
(* from p in one character, and secureCompare(a, b) is true exactly when a  *)
(* and b are the same string, empty and unequal-length strings included.    *)
C11_VerifierExact ==
    /\ resp.endpoint = "verifyPassword" =>
          /\ resp.req.p = resp.req.q => resp.body.result
          /\ OneCharApart(resp.req.p, resp.req.q) => ~resp.body.result
    /\ resp.endpoint = "secureCompare" =>
          (resp.body.result <=> resp.req.a = resp.req.b)

(* a password that differs from the stored one in one character verifies *)
C11_AcceptsOtherPassword ==
    /\ resp.endpoint = "verifyPassword"
    /\ OneCharApart(resp.req.p, resp.req.q)
    /\ resp.body.result

(* What does hold: secureCompare is string equality, a password verifies   *)
(* against its own digest, and a password verifies against the digest of   *)
(* another exactly when TextEncoder gives both the same bytes.             *)
VerifierUpToEncoding ==
    /\ resp.endpoint = "secureCompare" =>
          (resp.body.result <=> resp.req.a = resp.req.b)
    /\ resp.endpoint = "verifyPassword" =>
          (resp.body.result <=> Encode(resp.req.p) = Encode(resp.req.q))

----------------------------------------------------------------------------
(* The audit trail of logins.                                               *)

SuccessfulLogin == IsLogin(resp) /\ resp.status = 200

(* a login the handler counted as a failure: unknown identifier, lookup *)
(* error or wrong password                                             *)
FailedLogin == IsLogin(resp) /\ Times(resp.ops, Call("recordAttempt(false)")) >= 1

AuditInsert == <<"insert", "login_attempts">>

(* the last three things a successful login did before it answered: the  *)
(* key's record cleared, a token minted, one insert into login_attempts  *)
ClearedMintedInserted ==
    /\ Len(resp.ops) >= 3
    /\ SubSeq(resp.ops, Len(resp.ops) - 2, Len(resp.ops))
           = <<Call("recordAttempt(true)"), Call("randomUUID"), AuditInsert>>
    /\ Times(resp.ops, AuditInsert) = 1
    /\ resp.body.sessionToken \in randomUUID

ExpectedAuditRow ==
    [identifier |-> resp.req.identifier, attempt_type |-> resp.req.userType,
     ip_address |-> ClientIp, success |-> TRUE]

(* C13: every login that returns success has cleared the key's record,     *)
(* minted a random token and appended exactly one audit row (identifier,   *)
(* principal type, client IP, success = true), in this order, before the   *)
(* response.                                                               *)
C13_SuccessLeavesAuditRow ==
    SuccessfulLogin => ClearedMintedInserted /\ resp.audit = <<ExpectedAuditRow>>

(* a login answered with success although the data store took no audit row *)
C13_SuccessWithoutAuditRow ==
    SuccessfulLogin /\ ClearedMintedInserted /\ resp.audit = <<>>

(* what the handler does guarantee: the three calls in order, and no row *)
(* other than the expected one                                           *)
SuccessInsertsOnce ==
    SuccessfulLogin =>
        ClearedMintedInserted /\ resp.audit \in {<<>>, <<ExpectedAuditRow>>}

(* C14: every failed login (unknown identifier, lookup error, wrong      *)
(* password) appends a row with success = false to login_attempts.       *)
C14_FailureLeavesAuditRow ==
    FailedLogin => \E i \in 1..Len(resp.audit) : resp.audit[i].success = FALSE

(* a wrong password refused without any insert into login_attempts *)
C14_FailureWithoutAuditRow ==
    /\ FailedLogin
    /\ WrongPasswordLogin(resp)
    /\ Times(resp.ops, AuditInsert) = 0
    /\ resp.audit = <<>>

(* no login ever writes a row with success = false *)
OnlySuccessRows ==
    \A i \in 1..Len(resp.audit) : resp.audit[i].success = TRUE

----------------------------------------------------------------------------
(* The tutor endpoint: text.  A string is a sequence of pieces: a white   *)
(* space character, a character of ordinary text, the two delimiters of  *)
(* the analysis block, and the text of a JSON object.                     *)

Sp == " "
Txt == "x"
OpenTag == "[ANALYSIS]"
CloseTag == "[/ANALYSIS]"
JsonText == "{\"understanding\":\"good\",\"topics\":[],\"weakAreas\":[],\"strongAreas\":[]}"
(* other texts that are valid JSON: an object of another shape, a number, null *)
JsonOffShape == "{\"understanding\":\"superb\",\"topics\":\"optics\"}"
JsonNumber == "42"
JsonNull == "null"
JsonTexts == {JsonText, JsonOffShape, JsonNumber, JsonNull}
Pieces == {Sp, Txt, OpenTag, CloseTag} \cup JsonTexts

RECURSIVE TrimStart(_)
TrimStart(str) ==
    IF str # <<>> /\ Head(str) = Sp THEN TrimStart(Tail(str)) ELSE str

RECURSIVE TrimEnd(_)
TrimEnd(str) ==
    IF str # <<>> /\ str[Len(str)] = Sp
    THEN TrimEnd(SubSeq(str, 1, Len(str) - 1))
    ELSE str

(* String.prototype.trim *)
Trim(str) == TrimEnd(TrimStart(str))

NoMatch == [found |-> FALSE, from |-> 0, to |-> 0, group |-> <<>>]

(* the regular expression /\[ANALYSIS\](.*?)\[\/ANALYSIS\]/s tried at one *)
(* position: the opening delimiter, then as few pieces as possible up to   *)
(* a closing delimiter                                                     *)
MatchAt(str, i) ==
    LET closers == {j \in (i + 1)..Len(str) : str[j] = CloseTag}
    IN  IF str[i] = OpenTag /\ closers # {}
        THEN LET j == CHOOSE k \in closers : \A l \in closers : k <= l
             IN  [found |-> TRUE, from |-> i, to |-> j,
                  group |-> SubSeq(str, i + 1, j - 1)]
        ELSE NoMatch

(* String.prototype.match without the g flag: the leftmost position where *)
(* the expression matches                                                  *)
RECURSIVE MatchFrom(_, _)
MatchFrom(str, i) ==
    IF i > Len(str) THEN NoMatch
    ELSE IF MatchAt(str, i).found THEN MatchAt(str, i)
    ELSE MatchFrom(str, i + 1)

AnalysisMatch(str) == MatchFrom(str, 1)

(* a replacement that cuts from the opening delimiter to the last closing one *)
RemoveMatch_Greedy(str) ==
    LET m == AnalysisMatch(str)
        last == CHOOSE k \in 1..Len(str) :
                    str[k] = CloseTag /\ \A l \in 1..Len(str) : str[l] = CloseTag => l <= k
    IN  IF m.found
        THEN SubSeq(str, 1, m.from - 1) \o SubSeq(str, last + 1, Len(str))
        ELSE str

(* String.prototype.replace with the same expression and "": the first *)
(* match is cut out                                                    *)
RemoveMatch(str) ==
    LET m == AnalysisMatch(str)
    IN  IF m.found
        THEN SubSeq(str, 1, m.from - 1) \o SubSeq(str, m.to + 1, Len(str))
        ELSE str

(* the values JSON.parse gives: whether the value is null, whether it is an *)
(* object, its understanding field and whether topics, weakAreas and       *)
(* strongAreas are arrays                                                  *)
NullAnalysis == [null |-> TRUE, isObject |-> FALSE, understanding |-> "", lists |-> FALSE]
ParsedAnalysis == [null |-> FALSE, isObject |-> TRUE, understanding |-> "good", lists |-> TRUE]

ValueOf(json) ==
    CASE json = JsonText -> ParsedAnalysis
      [] json = JsonOffShape ->
            [null |-> FALSE, isObject |-> TRUE, understanding |-> "superb", lists |-> FALSE]
      [] json = JsonNumber ->
            [null |-> FALSE, isObject |-> FALSE, understanding |-> "", lists |-> FALSE]
      [] OTHER -> NullAnalysis

(* a parser that takes any text for the analysis *)
JsonParse_Lenient(text) == [threw |-> FALSE, value |-> ParsedAnalysis]

(* JSON.parse: white space around one value is allowed; anything else is a *)
(* SyntaxError                                                             *)
JsonParse(text) ==
    IF Len(Trim(text)) = 1 /\ Trim(text)[1] \in JsonTexts
    THEN [threw |-> FALSE, value |-> ValueOf(Trim(text)[1])]
    ELSE [threw |-> TRUE, value |-> NullAnalysis]

(* lines 309-321: the analysis taken out of the reply *)
ExtractAnalysis(analyzeSession, aiResponse) ==
    LET m == AnalysisMatch(aiResponse)
        parsed == JsonParse(m.group)
    IN  IF analyzeSession /\ m.found /\ ~parsed.threw
        THEN [sessionAnalysis |-> parsed.value, response |-> Trim(RemoveMatch(aiResponse))]
        ELSE [sessionAnalysis |-> NullAnalysis, response |-> aiResponse]

----------------------------------------------------------------------------
(* The tutor endpoint: limiter, history, prompt and transcript *)

MaxRequests == 30
WindowMs == 60000
RecentMessages == 6

(* the limiter that lets one request too many through *)
checkChatRateLimit_OneTooMany(limits, userId, t, maxRequests, windowMs) ==
    LET limit == limits[userId]
    IN  IF ~limit.present \/ t > limit.resetAt
        THEN [allowed |-> TRUE,
              limits |-> [limits EXCEPT ![userId] =
                             [count |-> 1, resetAt |-> t + windowMs, present |-> TRUE]]]
        ELSE IF limit.count > maxRequests
        THEN [allowed |-> FALSE, limits |-> limits]
        ELSE [allowed |-> TRUE,
              limits |-> [limits EXCEPT ![userId].count = limit.count + 1]]

(* the limiter that does not count the request that opens a window *)
checkChatRateLimit_OpensEmpty(limits, userId, t, maxRequests, windowMs) ==
    LET limit == limits[userId]
    IN  IF ~limit.present \/ t > limit.resetAt
        THEN [allowed |-> TRUE,
              limits |-> [limits EXCEPT ![userId] =
                             [count |-> 0, resetAt |-> t + windowMs, present |-> TRUE]]]
        ELSE IF limit.count >= maxRequests
        THEN [allowed |-> FALSE, limits |-> limits]
        ELSE [allowed |-> TRUE,
              limits |-> [limits EXCEPT ![userId].count = limit.count + 1]]

(* checkRateLimit of the tutor endpoint, at time t: whether the request is *)
(* admitted, and the map afterwards                                        *)
checkChatRateLimit(limits, userId, t, maxRequests, windowMs) ==
    LET limit == limits[userId]
    IN  IF ~limit.present \/ t > limit.resetAt
        THEN [allowed |-> TRUE,
              limits |-> [limits EXCEPT ![userId] =
                             [count |-> 1, resetAt |-> t + windowMs, present |-> TRUE]]]
        ELSE IF limit.count >= maxRequests
        THEN [allowed |-> FALSE, limits |-> limits]
        ELSE [allowed |-> TRUE,
              limits |-> [limits EXCEPT ![userId].count = limit.count + 1]]

(* Array.prototype.slice(0, k) and slice(-k) *)
Take(seq, k) == SubSeq(seq, 1, IF Len(seq) < k THEN Len(seq) ELSE k)
Last(seq, k) == SubSeq(seq, IF Len(seq) > k THEN Len(seq) - k + 1 ELSE 1, Len(seq))

(* [...new Set(seq)]: the first occurrence of every element, in order *)
RECURSIVE Distinct(_)
Distinct(seq) ==
    IF seq = <<>> THEN <<>>
    ELSE LET front == Distinct(SubSeq(seq, 1, Len(seq) - 1))
             x == seq[Len(seq)]
         IN  IF \E i \in 1..Len(front) : front[i] = x THEN front ELSE Append(front, x)

RECURSIVE Flatten(_)
Flatten(seqs) == IF seqs = <<>> THEN <<>> ELSE Head(seqs) \o Flatten(Tail(seqs))

Topics(sessions) == [i \in 1..Len(sessions) |-> sessions[i].topic]

(* lines 150-191: the student's past sessions and the areas gathered from *)
(* them; without a student id, with no rows returned or with a failed     *)
(* fetch there is no history                                              *)
NoHistory == [pastSessions |-> <<>>, weakAreas |-> <<>>, strongAreas |-> <<>>]

(* the loader that stands a placeholder session in for a failed fetch *)
LoadHistory_PlaceholderOnFailure(studentId, fetched) ==
    IF studentId = ""
    THEN NoHistory
    ELSE IF fetched.threw \/ ~fetched.hasData
    THEN [pastSessions |-> <<[topic |-> "unknown", weak_areas |-> <<"unknown">>,
                              strong_areas |-> <<>>]>>,
          weakAreas |-> <<"unknown">>, strongAreas |-> <<>>]
    ELSE [pastSessions |-> fetched.sessions,
          weakAreas |-> Take(Distinct(Flatten(
                            [i \in 1..Len(fetched.sessions) |-> fetched.sessions[i].weak_areas])), 5),
          strongAreas |-> Take(Distinct(Flatten(
                            [i \in 1..Len(fetched.sessions) |-> fetched.sessions[i].strong_areas])), 5)]

LoadHistory(studentId, fetched) ==
    IF studentId = "" \/ fetched.threw \/ ~fetched.hasData
    THEN NoHistory
    ELSE [pastSessions |-> fetched.sessions,
          weakAreas |-> Take(Distinct(Flatten(
                            [i \in 1..Len(fetched.sessions) |-> fetched.sessions[i].weak_areas])), 5),
          strongAreas |-> Take(Distinct(Flatten(
                            [i \in 1..Len(fetched.sessions) |-> fetched.sessions[i].strong_areas])), 5)]

(* what the system prompt is made of *)
buildSystemPrompt(pastSessions, weakAreas, strongAreas, currentTopic) ==
    IF Len(pastSessions) > 0
    THEN [personalized |-> TRUE,
          recentTopics |-> Take(Distinct(Topics(Take(pastSessions, 10))), 5),
          weakAreas |-> weakAreas, strongAreas |-> strongAreas,
          totalSessions |-> Len(pastSessions), topic |-> currentTopic]
    ELSE [personalized |-> FALSE, recentTopics |-> <<>>, weakAreas |-> <<>>,
          strongAreas |-> <<>>, totalSessions |-> 0, topic |-> currentTopic]

DefaultImageText == "Please analyze this image from my study materials."

(* one transcript entry as it is sent to the model: a string, or the two *)
(* parts of a message with an image                                      *)
ToAIMessage(msg) ==
    IF msg.imageUrl # ""
    THEN [role |-> msg.role,
          content |-> [kind |-> "parts",
                       text |-> IF msg.content # "" THEN msg.content ELSE DefaultImageText,
                       url |-> msg.imageUrl]]
    ELSE [role |-> msg.role,
          content |-> [kind |-> "string", text |-> msg.content, url |-> ""]]

SystemMessage == [role |-> "system", content |-> [kind |-> "string", text |-> "systemPrompt", url |-> ""]]

(* lines 209-232: the system prompt, then the last six entries *)
ChatMessages(messages) ==
    IF messages.isArray
    THEN LET recentMessages == Last(messages.entries, RecentMessages)
         IN  <<SystemMessage>> \o
             [i \in 1..Len(recentMessages) |-> ToAIMessage(recentMessages[i])]
    ELSE <<SystemMessage>>

(* study-chat/index.ts lines 69-92: the system prompt, then every entry *)
ChatMessagesAll(messages) ==
    IF messages.isArray
    THEN <<SystemMessage>> \o
         [i \in 1..Len(messages.entries) |-> ToAIMessage(messages.entries[i])]
    ELSE <<SystemMessage>>

----------------------------------------------------------------------------
(* The tutor endpoint: the handler.  A request is a record of the body's  *)
(* fields; env holds what the surroundings answer during the request:     *)
(* whether the gateway key is configured, the study_sessions fetch, and   *)
(* the gateway's answer to the primary and to the fallback call.          *)

PRIMARY_MODEL == "google/gemini-3-flash-preview"
FALLBACK_MODEL == "google/gemini-2.5-flash"

OopsText == <<"Oops! Kuch technical problem ho gaya. Thodi der baad try karo!">>
OopsBhaiText == <<"Oops! Kuch technical problem ho gaya. Thodi der baad try karo, bhai!">>
ThodaRukoText == <<"Thoda ruko ji! Bahut fast messages aa rahe hain. Ek minute mein try karo.">>

(* the catch block: the thrown message and the apology *)
ChatError(message, apology) == Json(500, [error |-> message, response |-> apology])

ChatRateLimited ==
    Json(429, [error |-> "Rate limit exceeded. Please wait a moment before sending more messages.",
               response |-> ThodaRukoText])

(* the classification that passes every status on to the caller *)
GatewayError_PassesStatus(outcome, apology) ==
    IF outcome.status = 429
    THEN Json(429, [error |-> "Rate limit exceeded. Please try again in a moment."])
    ELSE IF outcome.status = 402
    THEN Json(402, [error |-> "AI credits exhausted. Please add credits to continue."])
    ELSE Json(outcome.status, [error |-> "AI service error: " \o ToString(outcome.status),
                               response |-> apology])

(* a gateway answer that is not OK: 429 and 402 are passed on, anything *)
(* else is thrown                                                       *)
GatewayError(outcome, apology) ==
    IF outcome.status = 429
    THEN Json(429, [error |-> "Rate limit exceeded. Please try again in a moment."])
    ELSE IF outcome.status = 402
    THEN Json(402, [error |-> "AI credits exhausted. Please add credits to continue."])
    ELSE ChatError("AI service error: " \o ToString(outcome.status), apology)

(* the test that takes a reply of one piece for an empty one *)
HasText_WantsMore(outcome) == outcome.hasContent /\ Len(Trim(outcome.content)) > 1

(* typeof aiResponse === "string" && aiResponse.trim().length > 0 *)
HasText(outcome) == outcome.hasContent /\ Len(Trim(outcome.content)) > 0

(* the body of one gateway call *)
GatewayCall(model, chatMessages, maxTokens) ==
    [model |-> model, messages |-> chatMessages, max_tokens |-> maxTokens]

(* the handler on one request, with the limiter map as it is at time t: the *)
(* response, the calls made, the gateway calls sent, the map afterwards     *)
TutorOutcome(req, env, limits, t) ==
    LET limited == req.studentId # ""
        check == IF limited
                 THEN checkChatRateLimit(limits, req.studentId, t, MaxRequests, WindowMs)
                 ELSE [allowed |-> TRUE, limits |-> limits]
        history == LoadHistory(req.studentId, env.history)
        prompt == [system |-> buildSystemPrompt(history.pastSessions, history.weakAreas,
                                                history.strongAreas, req.currentTopic),
                   analysisInstruction |-> req.analyzeSession]
        chatMessages == ChatMessages(req.messages)
        primaryCall == GatewayCall(PRIMARY_MODEL, chatMessages, 800)
        fallbackCall == GatewayCall(FALLBACK_MODEL, chatMessages, 800)
        opsCheck == IF limited THEN <<Call("checkRateLimit")>> ELSE <<>>
        opsFetch == opsCheck \o (IF limited THEN <<<<"select", "study_sessions">>>> ELSE <<>>)
        opsPrimary == opsFetch \o <<Call("callLovableAI(PRIMARY_MODEL)")>>
        opsFallback == opsPrimary \o <<Call("callLovableAI(FALLBACK_MODEL)")>>
        Reply(aiResponse) ==
            LET a == ExtractAnalysis(req.analyzeSession, aiResponse)
            IN  Json(200, [response |-> a.response, sessionAnalysis |-> a.sessionAnalysis,
                           studentHistory |->
                               [recentTopics |-> Topics(Take(history.pastSessions, 5)),
                                weakAreas |-> history.weakAreas,
                                strongAreas |-> history.strongAreas]])
        Out(json, ops, sent) ==
            [json |-> json, ops |-> ops, sent |-> sent, prompt |-> prompt,
             limits |-> check.limits, admitted |-> limited]
    IN  IF ~env.keyConfigured
        THEN [json |-> ChatError("AI service is not configured", OopsText),
              ops |-> <<>>, sent |-> <<>>, prompt |-> prompt, limits |-> limits,
              admitted |-> FALSE]
        ELSE IF ~check.allowed
        THEN [json |-> ChatRateLimited, ops |-> opsCheck, sent |-> <<>>, prompt |-> prompt,
              limits |-> check.limits, admitted |-> FALSE]
        ELSE IF env.primary.status # 200
        THEN Out(GatewayError(env.primary, OopsText), opsPrimary, <<primaryCall>>)
        ELSE IF HasText(env.primary)
        THEN Out(Reply(env.primary.content), opsPrimary, <<primaryCall>>)
        ELSE IF env.fallback.status # 200
        THEN Out(GatewayError(env.fallback, OopsText), opsFallback,
                 <<primaryCall, fallbackCall>>)
        ELSE IF HasText(env.fallback)
        THEN Out(Reply(env.fallback.content), opsFallback, <<primaryCall, fallbackCall>>)
        ELSE Out(ChatError("No response from AI", OopsText), opsFallback,
                 <<primaryCall, fallbackCall>>)

(* what a finished tutor request leaves in resp: the request, what the   *)
(* surroundings answered, the response, the calls made, the bodies sent  *)
(* to the gateway and what the system prompt was made of                 *)
Chatted(endpoint, req, env, out) ==
    [endpoint |-> endpoint, req |-> req, env |-> env, status |-> out.json.status,
     body |-> out.json.body, ops |-> out.ops, audit |-> <<>>, sent |-> out.sent,
     prompt |-> out.prompt]

(* history: one more admitted request at time t, and those of the last *)
(* window before it                                                    *)
Recent(log, t) == {e \in log : e.at >= t - WindowMs}

Admit(log, t) ==
    LET kept == Recent(log, t)
    IN  IF \E e \in kept : e.at = t
        THEN {IF e.at = t THEN [at |-> t, n |-> e.n + 1] ELSE e : e \in kept}
        ELSE kept \cup {[at |-> t, n |-> 1]}

(* One request to the tutor endpoint, from the body to the response *)
TutorChat(req, env) ==
    LET out == TutorOutcome(req, env, rateLimits, now)
    IN  /\ resp' = Chatted("tutor", req, env, out)
        /\ rateLimits' = out.limits
        /\ admitted' = IF out.admitted
                       THEN [admitted EXCEPT ![req.studentId] = Admit(@, now)]
                       ELSE admitted
        /\ UNCHANGED <<now, loginAttempts, schools, reqs, failLog, tts, page>>

(* study-chat/index.ts on one request: only messages is read from the body, *)
(* one model is called, and a reply that is missing or "" is an error       *)
StudyChatOutcome(req, env) ==
    LET chatMessages == ChatMessagesAll(req.messages)
        call == GatewayCall(FALLBACK_MODEL, chatMessages, 1000)
        ops == <<Call("fetch(google/gemini-2.5-flash)")>>
        Out(json, o, sent) ==
            [json |-> json, ops |-> o, sent |-> sent,
             prompt |-> [system |-> buildSystemPrompt(<<>>, <<>>, <<>>, ""),
                         analysisInstruction |-> FALSE]]
    IN  IF ~env.keyConfigured
        THEN Out(ChatError("AI service is not configured", OopsBhaiText), <<>>, <<>>)
        ELSE IF env.primary.status # 200
        THEN Out(GatewayError(env.primary, OopsBhaiText), ops, <<call>>)
        ELSE IF ~env.primary.hasContent \/ env.primary.content = <<>>
        THEN Out(ChatError("No response from AI", OopsBhaiText), ops, <<call>>)
        ELSE Out(Json(200, [response |-> env.primary.content]), ops, <<call>>)

StudyChat(req, env) ==
    /\ resp' = Chatted("study-chat", req, env, StudyChatOutcome(req, env))
    /\ UNCHANGED <<now, loginAttempts, schools, reqs, failLog, rateLimits, admitted, tts, page>>

(* time passes at the tutor endpoint: a millisecond, or a whole window *)
WindowTick(d) ==
    /\ now \div WindowMs < MaxWindows
    /\ d = 1 => now % WindowMs = 0
    /\ now' = now + d
    /\ admitted' = [u \in StudentIds |-> Recent(admitted[u], now + d)]
    /\ UNCHANGED <<loginAttempts, schools, reqs, resp, failLog, rateLimits, tts, page>>

----------------------------------------------------------------------------
(* The tutor endpoint on single requests: every request is handled from *)
(* the initial state.                                                   *)

TranscriptEntry(i, imageUrl, content) ==
    [role |-> IF i % 2 = 1 THEN "user" ELSE "assistant", content |-> content,
     imageUrl |-> imageUrl]

(* n entries; the last one may carry an image, with or without text *)
Transcript(n, image) ==
    [isArray |-> TRUE,
     entries |-> [i \in 1..n |->
                    IF i = n /\ image = "image and text"
                    THEN TranscriptEntry(i, "data:image/png", "m" \o ToString(i))
                    ELSE IF i = n /\ image = "image only"
                    THEN TranscriptEntry(i, "data:image/png", "")
                    ELSE TranscriptEntry(i, "", "m" \o ToString(i))]]

NotAnArray == [isArray |-> FALSE, entries |-> <<>>]

Transcripts ==
    {Transcript(n, image) : n \in 0..MaxMessages,
                            image \in {"none", "image and text", "image only"}}
        \cup {NotAnArray}

ChatRequest(studentId, messages, analyzeSession, currentTopic) ==
    [studentId |-> studentId, messages |-> messages, analyzeSession |-> analyzeSession,
     currentTopic |-> currentTopic]

TutorRequests ==
    {ChatRequest(u, m, a, "") : u \in {"", "stu-1"}, m \in Transcripts, a \in BOOLEAN}

(* the study_sessions fetch: thrown, no data, or the rows *)
Session(topic, weak, strong) == [topic |-> topic, weak_areas |-> weak, strong_areas |-> strong]
Fetched(sessions) == [threw |-> FALSE, hasData |-> TRUE, sessions |-> sessions]
FetchThrew == [threw |-> TRUE, hasData |-> FALSE, sessions |-> <<>>]
FetchNull == [threw |-> FALSE, hasData |-> FALSE, sessions |-> <<>>]
Fetches ==
    {FetchThrew, FetchNull, Fetched(<<>>),
     Fetched(<<Session("optics", <<"lenses">>, <<"mirrors">>),
               Session("optics", <<"lenses", "prisms">>, <<>>)>>),
     Fetched([i \in 1..6 |->
                Session("topic-" \o ToString(i), <<"weak-" \o ToString(i)>>,
                        <<"strong-" \o ToString(i), "strong-1">>)])}

(* the gateway's answers *)
Content(str) == [status |-> 200, hasContent |-> TRUE, content |-> str]
NoContent == [status |-> 200, hasContent |-> FALSE, content |-> <<>>]
NotOk(status) == [status |-> status, hasContent |-> FALSE, content |-> <<>>]

RECURSIVE RepliesOfLen(_, _)
RepliesOfLen(pieces, n) ==
    IF n = 0 THEN {<<>>}
    ELSE {Append(str, c) : str \in RepliesOfLen(pieces, n - 1), c \in pieces}

Replies(pieces, maxLen) == UNION {RepliesOfLen(pieces, n) : n \in 0..maxLen}

(* an answer that is not OK and whose body is text all the same *)
NotOkWith(status, str) == [status |-> status, hasContent |-> TRUE, content |-> str]

ShortAnswers ==
    {Content(str) : str \in Replies({Sp, Txt}, 2)} \cup {NoContent}
        \cup {NotOk(status) : status \in {429, 402, 500}}
        \cup {NotOkWith(status, <<Txt>>) : status \in {429, 503}}

Env(keyConfigured, history, primary, fallback) ==
    [keyConfigured |-> keyConfigured, history |-> history, primary |-> primary,
     fallback |-> fallback]

TutorEnvs ==
    {Env(k, FetchNull, p, f) : k \in BOOLEAN, p \in ShortAnswers, f \in ShortAnswers}
        \cup {Env(TRUE, h, Content(<<Txt>>), NoContent) : h \in Fetches}

(* requests and answers for the analysis block: one message, any reply of *)
(* up to MaxReply pieces                                                  *)
AnalysisRequests ==
    {ChatRequest("", Transcript(1, "none"), a, "physics") : a \in BOOLEAN}

AnalysisEnvs ==
    {Env(TRUE, FetchNull, Content(str), NoContent) : str \in Replies(Pieces, MaxReply)}
        \cup {Env(TRUE, FetchNull, NoContent, Content(str)) :
                 str \in Replies({Sp, OpenTag, CloseTag, JsonText}, MaxReply)}

NextTutor ==
    \/ /\ resp = NoResponse
       /\ \E req \in TutorRequests, env \in TutorEnvs : TutorChat(req, env)
    \/ /\ resp = NoResponse
       /\ \E req \in AnalysisRequests, env \in AnalysisEnvs : TutorChat(req, env)
    \/ /\ resp = NoResponse
       /\ \E req \in TutorRequests, env \in TutorEnvs : StudyChat(req, env)

SpecTutor == Init /\ [][NextTutor]_vars

----------------------------------------------------------------------------
(* The tutor endpoint's limiter under load: the first student sends any  *)
(* number of messages, a second one sends one, and one request carries   *)
(* no student id; the clock moves by a millisecond or by a window.       *)

PlainEnv == Env(TRUE, FetchNull, Content(<<Txt>>), NoContent)
PlainRequest(studentId) == ChatRequest(studentId, Transcript(1, "none"), FALSE, "")

NextTutorLimit ==
    \/ \E d \in {1, WindowMs} : WindowTick(d)
    \/ TutorChat(PlainRequest("stu-1"), PlainEnv)
    \/ /\ ~rateLimits["stu-2"].present
       /\ TutorChat(PlainRequest("stu-2"), PlainEnv)
    \/ TutorChat(PlainRequest(""), PlainEnv)

SpecTutorLimit == Init /\ [][NextTutorLimit]_vars

----------------------------------------------------------------------------
(* The tutor endpoint: the model calls *)

IsChat(r) == r.endpoint \in {"tutor", "study-chat"}

(* the request got as far as the gateway, whose first answer was OK but *)
(* without text: content empty, only white space, or missing            *)
PrimaryCameEmpty(r) ==
    /\ IsChat(r)
    /\ Len(r.sent) >= 1
    /\ r.env.primary.status = 200
    /\ ~HasText(r.env.primary)

FallbackGaveText(r) == r.env.fallback.status = 200 /\ HasText(r.env.fallback)

FallbackCalls(r) == Cardinality({i \in 2..Len(r.sent) : r.sent[i].model = FALLBACK_MODEL})

(* the fallback model was called once, after the primary one, and when it *)
(* gave text the response is 200 with the reply made from that text       *)
FallbackUsed(r) ==
    /\ Len(r.sent) = 2
    /\ r.sent[1].model = PRIMARY_MODEL
    /\ FallbackCalls(r) = 1
    /\ FallbackGaveText(r) =>
          /\ r.status = 200
          /\ r.body.response
                = ExtractAnalysis(r.req.analyzeSession, r.env.fallback.content).response

(* C15: when the first model answers OK with empty, white-space or missing *)
(* content, the fallback model is invoked exactly once and its non-empty   *)
(* content is returned with status 200.                                    *)
C15_FallbackOnEmpty == PrimaryCameEmpty(resp) => FallbackUsed(resp)

(* study-chat/index.ts answered an empty reply with an error after one call *)
C15_EmptyWithoutFallback ==
    /\ resp.endpoint = "study-chat"
    /\ PrimaryCameEmpty(resp)
    /\ Len(resp.sent) = 1
    /\ resp.status = 500
    /\ resp.body.error = "No response from AI"

(* the handler with the two models does fall back *)
TwoModelHandlerFallsBack ==
    resp.endpoint = "tutor" /\ PrimaryCameEmpty(resp) => FallbackUsed(resp)

(* the system prompt followed by the last min(n, 6) of the n entries, in *)
(* their order, each as it is sent                                      *)
LastSixAfterPrompt(entries) ==
    LET n == Len(entries)
        k == IF n < 6 THEN n ELSE 6
    IN  <<SystemMessage>> \o [i \in 1..k |-> ToAIMessage(entries[n - k + i])]

ForwardsLastSix(r) ==
    \A i \in 1..Len(r.sent) : r.sent[i].messages = LastSixAfterPrompt(r.req.messages.entries)

SentTranscript(r) == IsChat(r) /\ Len(r.sent) >= 1 /\ r.req.messages.isArray

(* C16: of a transcript of n entries exactly the last min(n, 6) are      *)
(* forwarded to the model, in order, after the system prompt; of 8       *)
(* entries, the last 6.                                                  *)
C16_LastSixForwarded == SentTranscript(resp) => ForwardsLastSix(resp)

(* study-chat/index.ts forwarded all eight entries of a transcript *)
C16_AllEightForwarded ==
    /\ resp.endpoint = "study-chat"
    /\ SentTranscript(resp)
    /\ Len(resp.req.messages.entries) = 8
    /\ Len(resp.sent[1].messages) = 9

(* the handler with the two models forwards the last six *)
TwoModelHandlerTrims ==
    resp.endpoint = "tutor" /\ SentTranscript(resp) => ForwardsLastSix(resp)

(* and it did so for a transcript of eight entries *)
EightTrimmedToSix ==
    /\ resp.endpoint = "tutor"
    /\ SentTranscript(resp)
    /\ Len(resp.req.messages.entries) = 8
    /\ Len(resp.sent[1].messages) = 7

----------------------------------------------------------------------------
(* The tutor endpoint: the limiter *)

RECURSIVE SumOf(_)
SumOf(log) ==
    IF log = {} THEN 0
    ELSE LET e == CHOOSE x \in log : TRUE IN e.n + SumOf(log \ {e})

(* how many requests of student u were admitted at or after time t *)
AdmittedSince(u, t) == SumOf({e \in admitted[u] : e.at >= t})

(* the window of u that is open now, opened at t0 = resetAt - 60 s *)
WindowOpen(u) == rateLimits[u].present /\ now <= rateLimits[u].resetAt
OpenedAt(u) == rateLimits[u].resetAt - WindowMs

ThirtyAdmitted(u) == WindowOpen(u) /\ AdmittedSince(u, OpenedAt(u)) = 30

(* this step is the handling of a request carrying student id u *)
RequestBy(u) == now' = now /\ resp'.endpoint = "tutor" /\ resp'.req.studentId = u

(* C17: per student id, in the window opened at t0 by a first admitted    *)
(* request at most 30 requests are admitted up to t0 + 60 s; once 30 are  *)
(* admitted, further requests of that id are answered 429 until then, and *)
(* a rejected request changes neither the count nor the end of the window *)
C17_ThirtyPerWindow ==
    [][\A u \in StudentIds :
          /\ (WindowOpen(u) => AdmittedSince(u, OpenedAt(u)) <= 30)'
          /\ ThirtyAdmitted(u) /\ RequestBy(u) =>
                /\ resp'.status = 429
                /\ rateLimits'[u] = rateLimits[u]
                /\ admitted' = admitted]_vars

(* a request rejected at the very end of a window in which 30 were admitted *)
C17_Witness ==
    /\ resp.endpoint = "tutor"
    /\ resp.status = 429
    /\ resp.req.studentId = "stu-1"
    /\ ThirtyAdmitted("stu-1")
    /\ rateLimits["stu-1"].count = 30
    /\ now = rateLimits["stu-1"].resetAt

(* the requests of u admitted in the 60 seconds up to now *)
AdmittedLastMinute(u) == AdmittedSince(u, now - WindowMs)

(* some of them were admitted before the window that is open now was opened *)
AcrossWindows(u) ==
    /\ rateLimits[u].present
    /\ \E e \in admitted[u] : e.at >= now - WindowMs /\ e.at < OpenedAt(u)

(* C18: in any interval of 60 seconds at most 30 tutor requests of one *)
(* student id are admitted.                                            *)
C18_ThirtyPerMinute == \A u \in StudentIds : AdmittedLastMinute(u) <= 30

(* C18 as it holds: the windows are fixed, so an interval of 60 seconds    *)
(* holds more than 30 admitted requests only when it reaches across the    *)
(* opening of a new window, and then at most 59 (the request that opened   *)
(* the earlier window lies more than 60 seconds before the later one).     *)
C18_Amended ==
    \A u \in StudentIds :
        /\ AdmittedLastMinute(u) <= 59
        /\ AdmittedLastMinute(u) > 30 => AcrossWindows(u)

(* 59 requests admitted within 60 seconds, across the opening of a window *)
C18_Witness == AdmittedLastMinute("stu-1") = 59 /\ AcrossWindows("stu-1")

----------------------------------------------------------------------------
(* The tutor endpoint: the analysis block *)

(* the gateway gave a reply with text, from the primary model or, failing *)
(* that, from the fallback model                                          *)
GotReply(r) ==
    /\ r.endpoint = "tutor"
    /\ Len(r.sent) >= 1
    /\ r.env.primary.status = 200
    /\ HasText(r.env.primary) \/ FallbackGaveText(r)

ModelReply(r) ==
    IF HasText(r.env.primary) THEN r.env.primary.content ELSE r.env.fallback.content

(* the analysis block of a reply: from the first opening delimiter that has *)
(* a closing one after it, up to the first closing one after it             *)
HasBlock(str) ==
    \E i, j \in 1..Len(str) : i < j /\ str[i] = OpenTag /\ str[j] = CloseTag

BlockStart(str) ==
    CHOOSE i \in 1..Len(str) :
        /\ str[i] = OpenTag /\ \E j \in (i + 1)..Len(str) : str[j] = CloseTag
        /\ \A k \in 1..(i - 1) : str[k] # OpenTag

BlockEnd(str) ==
    CHOOSE j \in (BlockStart(str) + 1)..Len(str) :
        /\ str[j] = CloseTag
        /\ \A k \in (BlockStart(str) + 1)..(j - 1) : str[k] # CloseTag

BlockText(str) == SubSeq(str, BlockStart(str) + 1, BlockEnd(str) - 1)

WithoutBlock(str) ==
    SubSeq(str, 1, BlockStart(str) - 1) \o SubSeq(str, BlockEnd(str) + 1, Len(str))

(* a text that is one JSON value, white space around it allowed *)
IsJson(text) ==
    \E i \in 1..Len(text) :
        text[i] \in JsonTexts /\ \A j \in 1..Len(text) : j # i => text[j] = Sp

(* the value such a text stands for *)
JsonOf(text) == ValueOf(text[CHOOSE i \in 1..Len(text) : text[i] \in JsonTexts])

AnalysisAsked(r) == GotReply(r) /\ r.req.analyzeSession /\ HasBlock(ModelReply(r))

(* C19: when analysis is requested and the model reply holds an analysis *)
(* block with valid JSON, the response carries the parsed record as      *)
(* sessionAnalysis and, as reply, the model reply with that block        *)
(* removed and then trimmed.                                             *)
C19_AnalysisExtracted ==
    AnalysisAsked(resp) /\ IsJson(BlockText(ModelReply(resp))) =>
        /\ resp.status = 200
        /\ resp.body.sessionAnalysis = JsonOf(BlockText(ModelReply(resp)))
        /\ resp.body.response = Trim(WithoutBlock(ModelReply(resp)))

(* a block with text before it, white space around it and a second closing *)
(* delimiter after it was taken out of the reply                           *)
C19_Witness ==
    /\ AnalysisAsked(resp)
    /\ IsJson(BlockText(ModelReply(resp)))
    /\ resp.body.sessionAnalysis = ParsedAnalysis
    /\ resp.body.response # ModelReply(resp)
    /\ \E str \in {<<Txt, OpenTag, JsonText, CloseTag>>, <<OpenTag, JsonText, CloseTag, Sp>>,
                   <<OpenTag, JsonText, CloseTag, CloseTag>>} : ModelReply(resp) = str

(* C20: when the JSON inside the analysis block is malformed, the response *)
(* is still 200, the reply is the model reply unmodified, and              *)
(* sessionAnalysis is null.                                                *)
C20_MalformedSwallowed ==
    AnalysisAsked(resp) /\ ~IsJson(BlockText(ModelReply(resp))) =>
        /\ resp.status = 200
        /\ resp.body.sessionAnalysis = NullAnalysis
        /\ resp.body.response = ModelReply(resp)

(* a reply with a malformed block and white space at its end came back as *)
(* it was                                                                 *)
C20_Witness ==
    /\ AnalysisAsked(resp)
    /\ ~IsJson(BlockText(ModelReply(resp)))
    /\ resp.status = 200
    /\ resp.body.sessionAnalysis = NullAnalysis
    /\ ModelReply(resp) = <<OpenTag, Txt, CloseTag, Sp>>
    /\ resp.body.response = ModelReply(resp)

(* the understanding_level enum *)
UnderstandingLevels == {"weak", "average", "good", "excellent"}

FixedShape(analysis) ==
    /\ analysis.isObject
    /\ analysis.understanding \in UnderstandingLevels
    /\ analysis.lists

ReturnedAnalysis(r) == r.endpoint = "tutor" /\ r.status = 200 /\ ~r.body.sessionAnalysis.null

(* C21: a non-null sessionAnalysis returned by the tutor endpoint is a   *)
(* fixed-shape record: understanding is one of weak, average, good,      *)
(* excellent, and topics, weakAreas and strongAreas are lists.           *)
C21_AnalysisFixedShape ==
    ReturnedAnalysis(resp) => FixedShape(resp.body.sessionAnalysis)

(* a number returned as sessionAnalysis *)
C21_NumberReturned ==
    /\ ReturnedAnalysis(resp)
    /\ ~resp.body.sessionAnalysis.isObject
    /\ ModelReply(resp) = <<Txt, OpenTag, JsonNumber, CloseTag>>

(* the returned analysis is whatever JSON value stood in the block *)
AnalysisIsParsedValue ==
    ReturnedAnalysis(resp) =>
        /\ resp.req.analyzeSession
        /\ resp.body.sessionAnalysis = JsonOf(BlockText(ModelReply(resp)))

----------------------------------------------------------------------------
(* The tutor endpoint: error responses *)

TutorError(r) == r.endpoint = "tutor" /\ r.status \in {429, 402, 500}

HasErrorAndApology(r) ==
    /\ "error" \in DOMAIN r.body
    /\ "response" \in DOMAIN r.body
    /\ r.body.response # <<>>

(* the error was passed on from the gateway *)
FromGateway(r) ==
    /\ Len(r.sent) >= 1
    /\ r.env.primary.status \in {429, 402}
          \/ (Len(r.sent) = 2 /\ r.env.fallback.status \in {429, 402})

(* C22: every error response of the tutor endpoint (the limiter's 429, the *)
(* gateway's 429 and 402, and 500) carries the error field and a           *)
(* user-facing response string.                                            *)
C22_ErrorsCarryApology == TutorError(resp) => HasErrorAndApology(resp)

(* the gateway's 402 passed on with the error field alone *)
C22_QuotaWithoutApology ==
    /\ TutorError(resp)
    /\ resp.status = 402
    /\ FromGateway(resp)
    /\ DOMAIN resp.body = {"error"}

(* the handler's own error responses carry both fields *)
OwnErrorsCarryApology ==
    TutorError(resp) /\ ~FromGateway(resp) => HasErrorAndApology(resp)

----------------------------------------------------------------------------
(* The tutor endpoint: the student's history *)

NoDuplicates(seq) == \A i, j \in 1..Len(seq) : seq[i] = seq[j] => i = j

ShortList(seq) == NoDuplicates(seq) /\ Len(seq) <= 5

WithHistory(r) == r.endpoint = "tutor" /\ r.status = 200 /\ r.req.studentId # ""

(* C23: with a student id at most 10 sessions are used, the recent-topics *)
(* list of the prompt and of the returned studentHistory has no           *)
(* duplicates and at most 5 entries, and so have the weak-area and the    *)
(* strong-area lists.                                                     *)
C23_HistoryDeduplicated ==
    WithHistory(resp) =>
        /\ resp.prompt.system.totalSessions <= 10
        /\ ShortList(resp.prompt.system.recentTopics)
        /\ ShortList(resp.body.studentHistory.recentTopics)
        /\ ShortList(resp.prompt.system.weakAreas)
        /\ ShortList(resp.prompt.system.strongAreas)
        /\ ShortList(resp.body.studentHistory.weakAreas)
        /\ ShortList(resp.body.studentHistory.strongAreas)

(* a topic returned twice in studentHistory.recentTopics *)
C23_TopicReturnedTwice ==
    /\ WithHistory(resp)
    /\ resp.body.studentHistory.recentTopics = <<"optics", "optics">>
    /\ resp.prompt.system.recentTopics = <<"optics">>

(* all the lists but the returned recent topics are as the claim says, and *)
(* the returned recent topics are at most 5                                *)
OtherListsDeduplicated ==
    WithHistory(resp) =>
        /\ resp.prompt.system.totalSessions <= 10
        /\ ShortList(resp.prompt.system.recentTopics)
        /\ Len(resp.body.studentHistory.recentTopics) <= 5
        /\ ShortList(resp.prompt.system.weakAreas)
        /\ ShortList(resp.prompt.system.strongAreas)
        /\ ShortList(resp.body.studentHistory.weakAreas)
        /\ ShortList(resp.body.studentHistory.strongAreas)

(* six sessions with six weak areas were cut to five *)
SixCutToFive ==
    /\ WithHistory(resp)
    /\ Len(resp.env.history.sessions) = 6
    /\ Len(resp.body.studentHistory.recentTopics) = 5
    /\ Len(resp.body.studentHistory.weakAreas) = 5
    /\ Len(resp.body.studentHistory.strongAreas) = 5

(* the response of a catch block *)
CaughtByTutor(r) == r.endpoint = "tutor" /\ r.status = 500
CaughtByAuth(r) ==
    /\ r.endpoint \in {"secure-auth", "get-students"}
    /\ r.status = 500
    /\ r.body.error \notin {"Failed to fetch students", "Failed to fetch schools"}

(* the fixed texts of the catch blocks *)
GenericMessages == {"Internal server error", "An error occurred"}

(* C24: in every endpoint an unexpected exception yields 500 with a fixed  *)
(* generic message that does not depend on the exception.                  *)
C24_GenericMessageOn500 ==
    CaughtByTutor(resp) \/ CaughtByAuth(resp) => resp.body.error \in GenericMessages

(* the tutor endpoint returned the text of the exception: the gateway's *)
(* status, visible to the caller                                        *)
C24_ExceptionTextReturned ==
    /\ CaughtByTutor(resp)
    /\ resp.env.primary.status = 500
    /\ resp.body.error = "AI service error: 500"

(* the message of the tutor endpoint's 500 is the message of what was thrown *)
TutorReturnsExceptionText ==
    CaughtByTutor(resp) =>
        resp.body.error =
            IF ~resp.env.keyConfigured THEN "AI service is not configured"
            ELSE IF resp.env.primary.status # 200
            THEN "AI service error: " \o ToString(resp.env.primary.status)
            ELSE IF resp.env.fallback.status # 200
            THEN "AI service error: " \o ToString(resp.env.fallback.status)
            ELSE "No response from AI"

(* secure-auth and get-students answer an exception with the fixed text *)
AuthReturnsGenericText ==
    CaughtByAuth(resp) => resp.body.error = "Internal server error"

----------------------------------------------------------------------------
(* The login limiter: what a rejected login leaves behind *)

(* C25: a login rejected because its key is blocked leaves the key's      *)
(* record unchanged (blockedUntil, count, lastAttempt), and while a key   *)
(* is blocked no step moves the end of its block later.                   *)
C25_BlockedRejectionKeepsRecord ==
    [][/\ \A t \in LoginTargets, p \in LoginPasswords :
             LET k == RateLimitKey(t[1], t[2]) IN
             ActiveBlock(k) /\ Rejected(t, p) => loginAttempts'[k] = loginAttempts[k]
       /\ \A k \in Keys :
             ActiveBlock(k) /\ loginAttempts'[k].present =>
                 loginAttempts'[k].blockedUntil <= loginAttempts[k].blockedUntil]_vars

(* a login rejected some time into a block, the end of the block where it *)
(* was set                                                                *)
C25_Witness ==
    LET k == RateLimitKey(resp.req.userType, resp.req.identifier) IN
    /\ IsLogin(resp)
    /\ resp.status = 429
    /\ resp.body.waitSeconds < 1800
    /\ ActiveBlock(k)
    /\ resp.body.waitSeconds = CeilSeconds(loginAttempts[k].blockedUntil - now)
    /\ failLog[k].rejected = 2

(* this step is a login answered 429 on arrival *)
RejectedOnArrival ==
    reqs' = reqs /\ now' = now /\ IsLogin(resp') /\ resp'.status = 429

(* C26: a login rejected by the limiter reads and writes nothing in the   *)
(* data store (no principal lookup, no audit row) and records no attempt. *)
C26_RejectionTouchesNothing ==
    [][RejectedOnArrival =>
          LET k == RateLimitKey(resp'.req.userType, resp'.req.identifier) IN
          /\ resp'.ops = <<Call("checkRateLimit")>>
          /\ resp'.audit = <<>>
          /\ schools' = schools
          /\ loginAttempts'[k].count = loginAttempts[k].count
          /\ loginAttempts'[k].lastAttempt = loginAttempts[k].lastAttempt]_vars

(* a school login rejected at the threshold: five attempts on record, and *)
(* the limiter the only thing called                                      *)
C26_Witness ==
    LET k == RateLimitKey(resp.req.userType, resp.req.identifier) IN
    /\ IsLogin(resp)
    /\ resp.status = 429
    /\ resp.req.userType = "school"
    /\ resp.ops = <<Call("checkRateLimit")>>
    /\ loginAttempts[k].count = 5
    /\ loginAttempts[k].lastAttempt = failLog[k].lastFail

----------------------------------------------------------------------------
(* The login limiter: expiry *)

(* the key's record is older than the window and holds no active block *)
Expired(k) ==
    /\ loginAttempts[k].present
    /\ ~ActiveBlock(k)
    /\ now - loginAttempts[k].lastAttempt > RATE_LIMIT_WINDOW

(* the key's record holds a block that has ended *)
BlockEnded(k) ==
    /\ loginAttempts[k].present
    /\ loginAttempts[k].blockedUntil > 0
    /\ loginAttempts[k].blockedUntil <= now

(* the login is let through and the key's record is gone *)
AllowedAfresh(t, p) ==
    /\ Admitted(t, p)
    /\ ~loginAttempts'[RateLimitKey(t[1], t[2])].present

RefusedAfterBlockOnlyIfRecent ==
    [][\A t \in LoginTargets, p \in LoginPasswords :
          LET k == RateLimitKey(t[1], t[2]) IN
          BlockEnded(k) /\ Rejected(t, p) =>
              now - loginAttempts[k].lastAttempt <= RATE_LIMIT_WINDOW]_vars

----------------------------------------------------------------------------
(* The login limiter and the banned school *)

(* this step answers a login with the suspension of its school *)
RefusedAsBanned ==
    reqs' # reqs /\ resp' # resp /\ IsLogin(resp') /\ Answered(resp', Suspended)

----------------------------------------------------------------------------
(* The running time of secureCompare *)

Compared == resp.endpoint = "secureCompare"

(* the first position, counted from 1, where two strings of one length differ *)
FirstMismatch(a, b) ==
    CHOOSE i \in DOMAIN a : a[i] # b[i] /\ \A j \in 1..(i - 1) : a[j] = b[j]

(* C29: secureCompare never leaves its loop early: it performs            *)
(* max(|a|, |b|) iterations when the lengths differ and |a| iterations    *)
(* when they are equal, whatever the position of the first mismatch.      *)
C29_LoopNeverLeftEarly ==
    Compared =>
        resp.body.steps = IF Len(resp.req.a) # Len(resp.req.b)
                          THEN Longest(resp.req.a, resp.req.b)
                          ELSE Len(resp.req.a)

(* two strings of the longest length that differ in their first character: *)
(* the loop still runs over every character                                *)
C29_Witness ==
    /\ Compared
    /\ Len(resp.req.a) = MaxLen
    /\ Len(resp.req.b) = MaxLen
    /\ resp.req.a # resp.req.b
    /\ FirstMismatch(resp.req.a, resp.req.b) = 1
    /\ resp.body.steps = MaxLen
    /\ ~resp.body.result

(* the same for lengths that differ, the empty string included *)
UnequalLengthsRunLongest ==
    /\ Compared
    /\ resp.req.a = <<>>
    /\ Len(resp.req.b) = MaxLen
    /\ resp.body.steps = MaxLen

----------------------------------------------------------------------------
(* The session token of the school-management actions *)

OtherTokens == {<<"x">>, <<"uuid-r1">>}

(* the request's credentials with another non-empty session token *)
Retokened(adminCredentials) ==
    {[adminCredentials EXCEPT !.sessionToken = tok] :
        tok \in OtherTokens \ {adminCredentials.sessionToken}}

HasToken(adminCredentials) ==
    adminCredentials # Missing /\ adminCredentials.sessionToken # <<>>

(* the response and the schools table are those of this step *)
SameOutcome(status, body, ops, table) ==
    /\ resp'.status = status
    /\ resp'.body = body
    /\ resp'.ops = ops
    /\ schools' = table

(* this step answers a school-management request that lacks the admin id *)
(* or the session token                                                  *)
AnsweredWithoutCredentials ==
    /\ resp' # resp
    /\ resp'.endpoint = "secure-auth"
    /\ resp'.req.action \in Gated
    /\ \/ CredAdminId(resp'.req.adminCredentials) = ""
       \/ CredSessionToken(resp'.req.adminCredentials) = <<>>

(* this step answers the school-management action with a token present *)
AnsweredWithToken(action) ==
    /\ resp' # resp
    /\ resp'.endpoint = "secure-auth"
    /\ resp'.req.action = action
    /\ HasToken(resp'.req.adminCredentials)

(* C30: create_school, update_school and delete_school check the session  *)
(* token for presence only: the request with another non-empty token has  *)
(* the same status, response and effect on the data store, and a request  *)
(* without adminId or sessionToken gets 401 with no data-store access.    *)
C30_TokenPresenceOnly ==
    [][/\ AnsweredWithToken("create_school") =>
            \A c2 \in Retokened(resp'.req.adminCredentials),
               g \in GeneratedCredentials, id \in NewRowIds :
            \E d \in {resp'.req.schoolData}, e \in {resp'.req.dbError},
               st \in {resp'.status}, b \in {resp'.body}, o \in {resp'.ops},
               tb \in {schools'} :
                ENABLED (CreateSchool(c2, d, g, id, e) /\ SameOutcome(st, b, o, tb))
       /\ AnsweredWithToken("update_school") =>
            \A c2 \in Retokened(resp'.req.adminCredentials) :
            \E d \in {resp'.req.schoolData}, e \in {resp'.req.dbError},
               st \in {resp'.status}, b \in {resp'.body}, o \in {resp'.ops},
               tb \in {schools'} :
                ENABLED (UpdateSchool(c2, d, e) /\ SameOutcome(st, b, o, tb))
       /\ AnsweredWithToken("delete_school") =>
            \A c2 \in Retokened(resp'.req.adminCredentials) :
            \E d \in {resp'.req.schoolData}, e \in {resp'.req.dbError},
               st \in {resp'.status}, b \in {resp'.body}, o \in {resp'.ops},
               tb \in {schools'} :
                ENABLED (DeleteSchool(c2, d, e) /\ SameOutcome(st, b, o, tb))
       /\ AnsweredWithoutCredentials =>
             /\ resp'.status = 401
             /\ resp'.ops = <<>>
             /\ schools' = schools]_vars

(* a school is deleted by a request whose session token is a made-up value *)
C30_Witness ==
    /\ resp.endpoint = "secure-auth"
    /\ resp.req.action = "delete_school"
    /\ HasToken(resp.req.adminCredentials)
    /\ resp.req.adminCredentials.sessionToken = <<"x">>
    /\ resp.status = 200
    /\ Times(resp.ops, <<"delete", "schools">>) = 1
    /\ Cardinality(schools) < 2

(* a request without session token has been turned away at the door *)
TurnedAwayWithoutToken ==
    /\ resp.endpoint = "secure-auth"
    /\ resp.req.action \in Gated
    /\ resp.req.adminCredentials # Missing
    /\ resp.req.adminCredentials.adminId # ""
    /\ resp.req.adminCredentials.sessionToken = <<>>
    /\ resp.status = 401
    /\ resp.ops = <<>>

----------------------------------------------------------------------------
(* The tutor endpoint: how many model calls a request makes *)

(* the answer is OK and carries no text: content missing, empty or only *)
(* white space                                                          *)
CameEmpty(answer) ==
    /\ answer.status = 200
    /\ ~answer.hasContent \/ \A i \in DOMAIN answer.content : answer.content[i] = Sp

CalledFallback(r) == \E i \in DOMAIN r.sent : r.sent[i].model = FALLBACK_MODEL

(* C31: a tutor request makes at most two model calls; the fallback model *)
(* is called only after the primary call returned OK with empty content,  *)
(* and an empty fallback reply ends the request with 500, without a third *)
(* call.                                                                  *)
C31_AtMostOneFallback ==
    resp.endpoint = "tutor" =>
        /\ Len(resp.sent) <= 2
        /\ \A i \in DOMAIN resp.sent :
              resp.sent[i].model = IF i = 1 THEN PRIMARY_MODEL ELSE FALLBACK_MODEL
        /\ CalledFallback(resp) => CameEmpty(resp.env.primary)
        /\ CalledFallback(resp) /\ CameEmpty(resp.env.fallback) =>
              /\ resp.status = 500
              /\ Len(resp.sent) = 2

(* both models answered OK with white space only: two calls, then 500 *)
C31_Witness ==
    /\ resp.endpoint = "tutor"
    /\ resp.env.primary = Content(<<Sp>>)
    /\ resp.env.fallback = Content(<<Sp, Sp>>)
    /\ Len(resp.sent) = 2
    /\ resp.status = 500
    /\ resp.body.error = "No response from AI"

(* a primary call that was not OK, and one that gave text, ended the *)
(* request after one call                                           *)
OneCallWhenPrimarySettles ==
    /\ resp.endpoint = "tutor"
    /\ Len(resp.sent) >= 1
    /\ ~CameEmpty(resp.env.primary)
    => Len(resp.sent) = 1

----------------------------------------------------------------------------
(* The tutor endpoints: a gateway answer that is not OK *)

(* the answer that ended the request was not OK: the primary one, or the *)
(* fallback one after a primary answer that was OK                       *)
RefusedBy(r) ==
    IF r.env.primary.status # 200 THEN r.env.primary ELSE r.env.fallback

GatewayRefused(r) ==
    /\ IsChat(r)
    /\ Len(r.sent) >= 1
    /\ \/ r.env.primary.status # 200
       \/ Len(r.sent) = 2 /\ r.env.fallback.status # 200

Apologies == {OopsText, OopsBhaiText, ThodaRukoText}

(* C32: a gateway answer that is not OK, to the primary or to the        *)
(* fallback call, is classified by its status: 429 gives 429, 402 gives  *)
(* 402, any other status gives 500, and no text of the model is returned.*)
C32_ClassifiedByStatus ==
    GatewayRefused(resp) =>
        /\ resp.status = IF RefusedBy(resp).status \in {429, 402}
                         THEN RefusedBy(resp).status ELSE 500
        /\ "sessionAnalysis" \notin DOMAIN resp.body
        /\ "response" \in DOMAIN resp.body => resp.body.response \in Apologies

(* the fallback call was answered 503 with a text body: 500 and the apology *)
C32_Witness ==
    /\ resp.endpoint = "tutor"
    /\ Len(resp.sent) = 2
    /\ resp.env.primary = NoContent
    /\ resp.env.fallback = NotOkWith(503, <<Txt>>)
    /\ resp.status = 500
    /\ resp.body.response = OopsText

(* the single call of study-chat/index.ts was answered 429 *)
StudyChatPassesOn429 ==
    /\ resp.endpoint = "study-chat"
    /\ resp.env.primary = NotOkWith(429, <<Txt>>)
    /\ resp.status = 429
    /\ DOMAIN resp.body = {"error"}

----------------------------------------------------------------------------
(* The tutor endpoint: a history fetch that fails *)

(* the request named a student, was let through, and the fetch of the *)
(* student's sessions threw or came back without data                *)
HistoryFetchFailed(r) ==
    /\ r.endpoint = "tutor"
    /\ r.req.studentId # ""
    /\ Times(r.ops, <<"select", "study_sessions">>) = 1
    /\ r.env.history.threw \/ ~r.env.history.hasData

ModelGaveText(r) == r.env.primary.status = 200 /\ ~CameEmpty(r.env.primary)

(* C33: when fetching the student's history fails, by an error result or *)
(* a thrown exception, the request still calls the model and returns its *)
(* reply, with no history in the prompt and empty weakAreas and          *)
(* strongAreas in the response.                                          *)
C33_HistoryFailureNotFatal ==
    HistoryFetchFailed(resp) =>
        /\ Len(resp.sent) >= 1
        /\ ~resp.prompt.system.personalized
        /\ resp.prompt.system.recentTopics = <<>>
        /\ ModelGaveText(resp) =>
              /\ resp.status = 200
              /\ resp.body.response
                    = ExtractAnalysis(resp.req.analyzeSession, resp.env.primary.content).response
              /\ resp.body.studentHistory.weakAreas = <<>>
              /\ resp.body.studentHistory.strongAreas = <<>>

(* the fetch threw and the student got the model's reply *)
C33_Witness ==
    /\ HistoryFetchFailed(resp)
    /\ resp.env.history = FetchThrew
    /\ resp.status = 200
    /\ resp.body.response = <<Txt>>
    /\ resp.body.studentHistory.weakAreas = <<>>

(* the same after a fetch that came back without data *)
AnsweredAfterEmptyFetch ==
    /\ HistoryFetchFailed(resp)
    /\ resp.env.history = FetchNull
    /\ resp.status = 200

----------------------------------------------------------------------------
(* Logins that overlap: the failure count *)

(* the count of a key, 0 when it has no record *)
CountOf(map, k) == IF map[k].present THEN map[k].count ELSE 0

(* in this step a login for key k leaves with 401: a failed attempt is *)
(* recorded for it                                                     *)
FailureRecorded(k) ==
    /\ BagCardinality(reqs') < BagCardinality(reqs)
    /\ IsLogin(resp')
    /\ resp'.status = 401
    /\ RateLimitKey(resp'.req.userType, resp'.req.identifier) = k

(* C34: in any interleaving of overlapping logins for one key no update   *)
(* of the failure count is lost: every failed attempt recorded raises the *)
(* count by one, and between two of them the count changes only when the  *)
(* record is deleted, so n failures recorded with no success and no       *)
(* expiry in between leave the count at n.                                *)
C34_NoLostUpdate ==
    [][\A k \in Keys :
          /\ FailureRecorded(k) =>
                /\ loginAttempts'[k].present
                /\ loginAttempts'[k].count = CountOf(loginAttempts, k) + 1
          /\ ~FailureRecorded(k) =>
                \/ CountOf(loginAttempts', k) = CountOf(loginAttempts, k)
                \/ ~loginAttempts'[k].present]_vars

(* two logins passed the rate check at four failures and both failed: the *)
(* six failures recorded without a break are all counted                  *)
C34_Witness ==
    \E k \in Keys :
        /\ loginAttempts[k].present
        /\ loginAttempts[k].count = MAX_ATTEMPTS + 1
        /\ failLog[k].fails = MAX_ATTEMPTS + 1
        /\ ~failLog[k].cleared
        /\ now = 0

(* C35: in every reachable state, overlapping logins for one key          *)
(* included, a key's failure count never exceeds 5: at most 5 failed      *)
(* credential checks are made for a key between two resets of its record. *)
C35_CountAtMostFive ==
    \A k \in Keys : loginAttempts[k].present => loginAttempts[k].count <= MAX_ATTEMPTS

(* a sixth wrong password was compared and counted for a key whose record *)
(* has not been reset since the first                                     *)
C35_SixthCheckMade ==
    LET k == RateLimitKey(resp.req.userType, resp.req.identifier) IN
    /\ IsLogin(resp)
    /\ resp.status = 401
    /\ Times(resp.ops, Call("secureCompare")) = 1
    /\ loginAttempts[k].count = MAX_ATTEMPTS + 1
    /\ Len(failLog[k].times) = MAX_ATTEMPTS
    /\ failLog[k].times[1] = now

(* What does hold: the logins in flight are the only ones that can fail *)
(* past the threshold                                                   *)
CountBoundedByOverlap ==
    \A k \in Keys :
        loginAttempts[k].present =>
            loginAttempts[k].count <= (MAX_ATTEMPTS - 1) + MaxInFlight

----------------------------------------------------------------------------
(* A school from its creation on: the administrator creates it, bans it,  *)
(* lifts the ban and deletes it, while logins with the credentials that   *)
(* create_school returned, and with a wrong password, arrive and overlap. *)

TheAdmin == [adminId |-> "uuid-adm", sessionToken |-> <<"uuid-r1">>]

NextSchool ==
    \/ \E g \in GeneratedCredentials, id \in NewRowIds :
           CreateSchool(TheAdmin, [name |-> "S3"], g, id, "none")
    \/ \E id \in NewRowIds, u \in SchoolUpdates :
           UpdateSchool(TheAdmin, [schoolId |-> id, updates |-> u], "none")
    \/ \E id \in NewRowIds : DeleteSchool(TheAdmin, [schoolId |-> id], "none")
    \/ \E g \in GeneratedCredentials :
           \E p \in {g.password, PwWrong} : LoginReceive("school", g.id, p)
    \/ \E r \in InFlight, e \in BOOLEAN : LoginLookup(r, e)
    \/ \E r \in InFlight, tok \in randomUUID : LoginVerify(r, tok)
    \/ \E r \in InFlight, e \in BOOLEAN : LoginAudit(r, e)

SpecSchool == Init /\ [][NextSchool]_vars

(* the request is a school login with credentials create_school returns *)
WithIssuedCredentials(req) ==
    /\ req.action = "login"
    /\ req.userType = "school"
    /\ \E g \in GeneratedCredentials : req.identifier = g.id /\ req.password = g.password

(* the school of these credentials is in the table and not banned *)
SchoolIntact(req) ==
    \E row \in schools : row.school_id = req.identifier /\ ~row.is_banned

(* the limiter refuses the key: a block is running, or the count has *)
(* reached the threshold and the next check sets the block           *)
KeyBlocked(k) ==
    /\ loginAttempts[k].present
    /\ loginAttempts[k].blockedUntil > now \/ loginAttempts[k].count >= MAX_ATTEMPTS

----------------------------------------------------------------------------
(* Student listings for a banned school, checked under SpecAdmin *)

(* the request asks for the students of one school: the student-fetch *)
(* endpoint as a school, or get_students_for_school                   *)
ListsForSchool(r) ==
    \/ r.endpoint = "get-students" /\ r.req.user_type = "school"
    \/ /\ r.endpoint = "secure-auth"
       /\ r.req.action = "get_students_for_school"
       /\ r.req.schoolData # Missing

ListedSchool(r) ==
    IF r.endpoint = "get-students" THEN r.req.school_id ELSE r.req.schoolData.schoolUuid

IsBannedSchool(id) == \E row \in schools : row.id = id /\ row.is_banned

ReturnsStudents(r) == "students" \in DOMAIN r.body

(* C37: a school whose is_banned flag is set cannot obtain its students'  *)
(* records from any endpoint: every student-listing request made for a    *)
(* banned school is refused without returning students.                   *)
C37_BannedSchoolGetsNoStudents ==
    ListsForSchool(resp) /\ IsBannedSchool(ListedSchool(resp)) =>
        /\ resp.status # 200
        /\ ~ReturnsStudents(resp)

(* get_students_for_school answered 200 with the students of a banned school *)
C37_BannedSchoolListed ==
    /\ resp.endpoint = "secure-auth"
    /\ resp.req.action = "get_students_for_school"
    /\ resp.req.schoolData # Missing
    /\ IsBannedSchool(resp.req.schoolData.schoolUuid)
    /\ resp.status = 200
    /\ resp.body.students # {}
    /\ \A st \in resp.body.students : st.school_id = resp.req.schoolData.schoolUuid

(* What does hold: the student-fetch endpoint refuses a banned school, *)
(* with 403, or with 401 when its lookup of the school fails          *)
FetchEndpointRefusesBanned ==
    /\ resp.endpoint = "get-students"
    /\ resp.req.user_type = "school"
    /\ IsBannedSchool(resp.req.school_id)
    => resp.status \in {401, 403} /\ ~ReturnsStudents(resp)

FetchEndpointRefusedBanned ==
    /\ resp.endpoint = "get-students"
    /\ resp.req.user_type = "school"
    /\ IsBannedSchool(resp.req.school_id)
    /\ resp.status = 403

----------------------------------------------------------------------------
(* The tutor endpoint: the reply text of a 200 *)

(* the text has a piece that is not white space *)
NonEmptyText(str) == \E i \in DOMAIN str : str[i] # Sp

(* C38: every 200 response of the tutor endpoint carries a non-empty reply *)
(* text, also after the analysis block has been stripped from the model    *)
(* reply.                                                                  *)
C38_ReplyNeverEmpty ==
    resp.endpoint = "tutor" /\ resp.status = 200 => NonEmptyText(resp.body.response)

(* the model's reply was the analysis block and nothing else: 200 with the *)
(* analysis and an empty reply text                                        *)
C38_OnlyTheBlock ==
    /\ resp.endpoint = "tutor"
    /\ resp.req.analyzeSession
    /\ resp.env.primary = Content(<<OpenTag, JsonText, CloseTag>>)
    /\ resp.status = 200
    /\ resp.body.response = <<>>
    /\ ~resp.body.sessionAnalysis.null

(* What does hold: a reply from which no block is stripped is not empty *)
UnstrippedReplyNotEmpty ==
    /\ resp.endpoint = "tutor"
    /\ resp.status = 200
    /\ ~AnalysisAsked(resp)
    => NonEmptyText(resp.body.response)

----------------------------------------------------------------------------
(* The text-to-speech hook.  A speak() hands its chunks to the browser's   *)
(* synthesizer one at a time and waits for the event of each; the app      *)
(* starts a speak() when none is in progress.  tts.pc is where speak() is  *)
(* waiting: "chunk" for the event of chunk i, "delay" for the 100 ms       *)
(* between two chunks, "retry" for the event of the English fallback.      *)
(* tts.synth says whether an utterance is being spoken, tts.event is the   *)
(* event the browser has queued for the utterance of the pending promise.  *)
(* History: the chunks handed to the synthesizer by the current speak()    *)
(* (0 for the fallback text), whether stop() was called since it began,    *)
(* and how many chunks had been handed over by then.                       *)

MaxChunks == 3        \* chunks of one text

(* what the browser answers to cancel() for the utterance being spoken: an *)
(* end event, an error event 'interrupted' or 'canceled', or no event      *)
CancelEvents == {"end", "interrupted", "canceled", "none"}

(* speakChunk up to the pending promise: cancel(), speak(utterance), the *)
(* keep-alive timer                                                      *)
speakChunk(hook, chunk, pc) ==
    [hook EXCEPT !.pc = pc, !.synth = "speaking", !.event = "none",
                 !.keepAlive = TRUE, !.handed = Append(@, chunk)]

(* the finally block of speak() *)
SpeakSettles(hook) ==
    [hook EXCEPT !.pc = "idle", !.keepAlive = FALSE, !.isSpeaking = FALSE]

(* speak() on a text of n chunks, up to the first await *)
Speak(n) ==
    /\ tts.pc = "idle"
    /\ tts' = speakChunk([tts EXCEPT !.isSpeaking = TRUE, !.retryCount = 0, !.chunks = n,
                                     !.i = 1, !.handed = <<>>, !.stopped = FALSE,
                                     !.handedAtStop = 0],
                         1, "chunk")
    /\ UNCHANGED <<now, loginAttempts, schools, reqs, resp, failLog, rateLimits, admitted,
                   page>>

(* the synthesizer comes to the end of the utterance, or fails on it *)
SynthFinishes(event) ==
    /\ tts.synth = "speaking"
    /\ tts' = [tts EXCEPT !.synth = "silent", !.event = event]
    /\ UNCHANGED <<now, loginAttempts, schools, reqs, resp, failLog, rateLimits, admitted,
                   page>>

(* onend / onerror of the utterance: end, 'interrupted' and 'canceled'    *)
(* resolve the promise and speak() goes on; any other error rejects it    *)
(* and speak() tries the fallback once                                    *)
UtteranceEvent ==
    /\ tts.pc \in {"chunk", "retry"}
    /\ tts.event # "none"
    /\ tts' =
         IF tts.event \in {"end", "interrupted", "canceled"}
         THEN IF tts.pc = "chunk" /\ tts.i < tts.chunks
              THEN [tts EXCEPT !.pc = "delay", !.event = "none"]
              ELSE SpeakSettles([tts EXCEPT !.event = "none"])
         ELSE IF tts.pc = "chunk" /\ tts.retryCount < 1
              THEN speakChunk([tts EXCEPT !.retryCount = @ + 1], 0, "retry")
              ELSE SpeakSettles([tts EXCEPT !.event = "none"])
    /\ UNCHANGED <<now, loginAttempts, schools, reqs, resp, failLog, rateLimits, admitted,
                   page>>

(* the 100 ms between two chunks are over: the next chunk *)
DelayElapses ==
    /\ tts.pc = "delay"
    /\ tts' = speakChunk([tts EXCEPT !.i = @ + 1], tts.i + 1, "chunk")
    /\ UNCHANGED <<now, loginAttempts, schools, reqs, resp, failLog, rateLimits, admitted,
                   page>>

(* stop(): the keep-alive timer is cleared, the synthesizer cancelled, *)
(* isSpeaking set to false                                            *)
Stop(event) ==
    /\ tts.synth # "speaking" => event = "none"
    /\ tts' = [tts EXCEPT !.keepAlive = FALSE, !.isSpeaking = FALSE,
                          !.synth = "silent",
                          !.event = IF tts.synth = "speaking" THEN event ELSE @,
                          !.stopped = @ \/ tts.pc # "idle",
                          !.handedAtStop = IF tts.stopped \/ tts.pc = "idle"
                                           THEN @ ELSE Len(tts.handed)]
    /\ UNCHANGED <<now, loginAttempts, schools, reqs, resp, failLog, rateLimits, admitted,
                   page>>

NextSpeech ==
    \/ \E n \in 1..MaxChunks : Speak(n)
    \/ \E e \in {"end", "synthesis-failed"} : SynthFinishes(e)
    \/ UtteranceEvent
    \/ DelayElapses
    \/ \E e \in CancelEvents : Stop(e)

SpecSpeech == Init /\ [][NextSpeech]_vars

(* C39: stop() stops any ongoing speech: after stop() is called while a    *)
(* multi-chunk speak() is in progress, no further chunk of that speak is   *)
(* handed to the synthesizer, and isSpeaking stays false until the next    *)
(* speak().                                                                *)
C39_StopEndsTheSpeak ==
    [][/\ tts'.stopped => ~tts'.isSpeaking
       /\ tts.stopped /\ tts'.stopped => tts'.handed = tts.handed]_vars

(* stop() was called while the first of three chunks was being spoken, and *)
(* the second chunk has been handed to the synthesizer since               *)
C39_ChunkSpokenAfterStop ==
    /\ tts.stopped
    /\ tts.chunks = MaxChunks
    /\ tts.handedAtStop = 1
    /\ tts.handed = <<1, 2>>
    /\ tts.synth = "speaking"
    /\ ~tts.isSpeaking

(* What does hold: isSpeaking stays false from stop() to the next speak() *)
StoppedMeansNotSpeaking == tts.stopped => ~tts.isSpeaking

----------------------------------------------------------------------------
(* The admin login page.  page.pc is "awaiting" while handleLogin waits    *)
(* for supabase.functions.invoke; page.result is how the last handleLogin  *)
(* ended.  What invoke resolves with is the answer of secure-auth as the   *)
(* client library hands it over: a 2xx as data, another status as data or  *)
(* as error, a failed request as error.                                    *)

(* what is typed into the two inputs; a field may be emptied again *)
TypedAdminIds == {"", "adm", "nobody"}
TypedPasswords == {<<>>, PwAdmin, PwWrong}

(* the answers of secure-auth to a login *)
LoginAnswers ==
    {TooManyAttempts(w) : w \in {1800, 900}}
        \cup {GenericFailure, Json(401, [error |-> "Authentication failed"]), InternalError,
              Json(200, [success |-> TRUE,
                         user |-> [id |-> "uuid-adm", name |-> "Admin", role |-> "super",
                                   adminId |-> "adm"],
                         sessionToken |-> <<"uuid-r1">>])}

NoAnswer == Json(0, [none |-> TRUE])

(* { data, error } of invoke *)
InvokeResults ==
    {[data |-> a.body, error |-> FALSE, status |-> a.status] : a \in LoginAnswers}
        \cup {[data |-> NoAnswer.body, error |-> TRUE, status |-> a.status] :
                 a \in {a \in LoginAnswers : a.status # 200} \cup {NoAnswer}}

Has(data, field) == field \in DOMAIN data

(* onChange of the two inputs *)
TypeAdminId(value) ==
    /\ page.route = "/admin-login"
    /\ page' = [page EXCEPT !.adminId = value]
    /\ UNCHANGED <<now, loginAttempts, schools, reqs, resp, failLog, rateLimits, admitted,
                   tts>>

TypePassword(value) ==
    /\ page.route = "/admin-login"
    /\ page' = [page EXCEPT !.password = value]
    /\ UNCHANGED <<now, loginAttempts, schools, reqs, resp, failLog, rateLimits, admitted,
                   tts>>

(* the eye button next to the password *)
ToggleShowPassword ==
    /\ page.route = "/admin-login"
    /\ page' = [page EXCEPT !.showPassword = ~@]
    /\ UNCHANGED <<now, loginAttempts, schools, reqs, resp, failLog, rateLimits, admitted,
                   tts>>

(* the form is submitted: the button is enabled and the required fields *)
(* are filled in; handleLogin runs up to the await                      *)
HandleLogin ==
    /\ page.route = "/admin-login"
    /\ page.pc = "idle"
    /\ ~page.isLoading
    /\ page.adminId # "" /\ page.password # <<>>
    /\ page' = [page EXCEPT !.isLoading = TRUE, !.pc = "awaiting", !.result = "none"]
    /\ UNCHANGED <<now, loginAttempts, schools, reqs, resp, failLog, rateLimits, admitted,
                   tts>>

(* invoke resolves and handleLogin runs to its end *)
InvokeReturns(result) ==
    /\ page.pc = "awaiting"
    /\ page' =
         IF result.error
         THEN [page EXCEPT !.pc = "idle", !.result = "thrown", !.toast = "Login Failed",
                           !.isLoading = FALSE]
         ELSE IF Has(result.data, "rateLimited") /\ result.data.rateLimited
         THEN [page EXCEPT !.pc = "idle", !.result = "rate-limited",
                           !.rateLimitWait = result.data.waitSeconds,
                           !.toast = "Too Many Attempts"]
         ELSE IF Has(result.data, "error")
         THEN [page EXCEPT !.pc = "idle", !.result = "credential error",
                           !.toast = "Invalid Credentials"]
         ELSE IF Has(result.data, "success") /\ result.data.success
         THEN [page EXCEPT !.pc = "idle", !.result = "success", !.toast = "Welcome Admin!",
                           !.route = "/admin-dashboard", !.isLoading = FALSE]
         ELSE [page EXCEPT !.pc = "idle", !.result = "other", !.isLoading = FALSE]
    /\ UNCHANGED <<now, loginAttempts, schools, reqs, resp, failLog, rateLimits, admitted,
                   tts>>

NextPage ==
    \/ \E v \in TypedAdminIds : TypeAdminId(v)
    \/ \E v \in TypedPasswords : TypePassword(v)
    \/ ToggleShowPassword
    \/ HandleLogin
    \/ \E result \in InvokeResults : InvokeReturns(result)

SpecPage == Init /\ [][NextPage]_vars

HandleLoginFinished == page.pc = "idle" /\ page.result # "none"

(* C40: whenever handleLogin of the admin login page finishes, with any   *)
(* outcome (rate-limited, credential error, thrown error, success),       *)
(* isLoading is false again, so the form is never left disabled after a   *)
(* rejected login.                                                        *)
C40_LoadingReset == HandleLoginFinished => ~page.isLoading

(* handleLogin has shown "Too Many Attempts" and returned: the page is *)
(* still on the form, whose button stays disabled                      *)
C40_LeftLoading ==
    /\ HandleLoginFinished
    /\ page.result = "rate-limited"
    /\ page.toast = "Too Many Attempts"
    /\ page.route = "/admin-login"
    /\ page.isLoading
    /\ ~ENABLED HandleLogin

(* What does hold: after a thrown error, a success or an answer without *)
(* any of the three fields, isLoading is false                          *)
LoadingResetUnlessReturned ==
    HandleLoginFinished /\ page.result \in {"thrown", "success", "other"} => ~page.isLoading

====
